---------------------------- MODULE Spec2Model ----------------------------
(***************************************************************************)
(* Marching cubes over a sparse density map, patch stitching and octree    *)
(* subdivision of splashsurf_lib (marching_cubes.rs, octree.rs).           *)
(*                                                                         *)
(* Conventions of the model                                                *)
(*   - a point or cell index is a triple <<i, j, k>> of 0-based components;*)
(*     TLA+ tuples are 1-based, so axis X, Y, Z is position 1, 2, 3        *)
(*     (Axis::dim() + 1);                                                  *)
(*   - a grid is its cells_per_dim triple;                                 *)
(*   - Option<T> is a sequence: None is << >> and Some(x) is <<x>>;        *)
(*   - a MapType<K, V> is a function whose DOMAIN is the set of keys;      *)
(*   - density values are integers, compared with the threshold with the  *)
(*     same operators as the code; an interpolated vertex is recorded by   *)
(*     the data it is interpolated from (both end points in global grid    *)
(*     indices and both values), which determines alpha and its position.  *)
(***************************************************************************)
EXTENDS Integers, Sequences, FiniteSets, TLC

None == << >>

Some(x) == <<x>>

is_some(o) == Len(o) = 1

is_none(o) == Len(o) = 0

unwrap(o) == o[1]

(* MapType::get *)
map_get(m, k) == IF k \in DOMAIN m THEN Some(m[k]) ELSE None

(* MapType::insert (overwrites) *)
map_insert(m, k, v) == [x \in (DOMAIN m) \cup {k} |-> IF x = k THEN v ELSE m[x]]

new_map == [x \in {} |-> 0]

(* Ascending sequence of the elements of a finite set of integers *)
SortedSeq(S) ==
    IF S = {} THEN << >>
    ELSE LET lo == CHOOSE x \in S : \A y \in S : x <= y
             hi == CHOOSE x \in S : \A y \in S : y <= x
         IN  SelectSeq([i \in 1..(hi - lo + 1) |-> lo + i - 1], LAMBDA x : x \in S)

Reverse(s) == [i \in 1..Len(s) |-> s[Len(s) + 1 - i]]

Range(s) == {s[i] : i \in 1..Len(s)}

Max2(a, b) == IF a >= b THEN a ELSE b

(***************************************************************************)
(* Uniform grid and its topology (uniform_grid.rs is not part of the       *)
(* sources at hand; modelled from the specification, sections 3 and 4.7,   *)
(* and from the local corner / edge order the unit test of                 *)
(* marching_cubes.rs fixes).                                               *)
(***************************************************************************)
Axes == {1, 2, 3}

(* DirectedAxis: <<axis, step>> with step -1 (Negative) or 1 (Positive) *)
ALL_DIRECTED_AXES == << <<1, -1>>, <<1, 1>>, <<2, -1>>, <<2, 1>>, <<3, -1>>, <<3, 1>> >>

DirectedAxes == Range(ALL_DIRECTED_AXES)

opposite(da) == <<da[1], 0 - da[2]>>

orthogonal_axes(axis) == Axes \ {axis}

points_per_dim(g) == <<g[1] + 1, g[2] + 1, g[3] + 1>>

PointsOf(g) == (0..g[1]) \X (0..g[2]) \X (0..g[3])

CellsOf(g) == (0..(g[1] - 1)) \X (0..(g[2] - 1)) \X (0..(g[3] - 1))

(* Flat indices: lexicographic, k outermost *)
flatten_point_index(g, p) == p[1] + (g[1] + 1) * (p[2] + (g[2] + 1) * p[3])

flatten_cell_index(g, c) == c[1] + g[1] * (c[2] + g[2] * c[3])

try_unflatten_point_index(g, f) ==
    LET nx == g[1] + 1
        ny == g[2] + 1
        nz == g[3] + 1
    IN  IF f >= 0 /\ f < nx * ny * nz
        THEN Some(<<f % nx, (f \div nx) % ny, f \div (nx * ny)>>)
        ELSE None

try_unflatten_cell_index(g, f) ==
    IF f >= 0 /\ f < g[1] * g[2] * g[3]
    THEN Some(<<f % g[1], (f \div g[1]) % g[2], f \div (g[1] * g[2])>>)
    ELSE None

FlatPointsOf(g) == 0..((g[1] + 1) * (g[2] + 1) * (g[3] + 1) - 1)

point_in_grid(g, p) == \A a \in Axes : p[a] >= 0 /\ p[a] <= g[a]

cell_in_grid(g, c) == \A a \in Axes : c[a] >= 0 /\ c[a] <= g[a] - 1

apply_step(p, da) == [p EXCEPT ![da[1]] = @ + da[2]]

(* UniformGrid::get_point_neighbor: the neighbour along a directed axis, if in the grid *)
get_point_neighbor(g, p, da) ==
    IF point_in_grid(g, apply_step(p, da)) THEN Some(apply_step(p, da)) ELSE None

(* EdgeIndex: origin (the lower end point) and axis *)
edge_of(p, q) ==
    LET axis == CHOOSE a \in Axes : p[a] # q[a]
    IN  [origin |-> IF p[axis] < q[axis] THEN p ELSE q, axis |-> axis]

(* Local corner order of a cell (marching cubes convention) *)
CELL_LOCAL_POINTS ==
    << <<0, 0, 0>>, <<1, 0, 0>>, <<1, 1, 0>>, <<0, 1, 0>>,
       <<0, 0, 1>>, <<1, 0, 1>>, <<1, 1, 1>>, <<0, 1, 1>> >>

(* Local edge order of a cell: pairs of local corners, origin first *)
CELL_LOCAL_EDGES ==
    << <<0, 1>>, <<1, 2>>, <<3, 2>>, <<0, 3>>, <<4, 5>>, <<5, 6>>,
       <<7, 6>>, <<4, 7>>, <<0, 4>>, <<1, 5>>, <<2, 6>>, <<3, 7>> >>

LocalPoints == 0..7

LocalEdges == 0..11

vadd(a, b) == <<a[1] + b[1], a[2] + b[2], a[3] + b[3]>>

vsub(a, b) == <<a[1] - b[1], a[2] - b[2], a[3] - b[3]>>

(* CellIndex::global_point_index_of *)
global_point_index_of(c, lp) == vadd(c, CELL_LOCAL_POINTS[lp + 1])

(* CellIndex::local_point_index_of *)
local_point_index_of(c, p) ==
    IF \E lp \in LocalPoints : global_point_index_of(c, lp) = p
    THEN Some(CHOOSE lp \in LocalPoints : global_point_index_of(c, lp) = p)
    ELSE None

local_edge_origin(c, le) == global_point_index_of(c, CELL_LOCAL_EDGES[le + 1][1])

local_edge_target(c, le) == global_point_index_of(c, CELL_LOCAL_EDGES[le + 1][2])

(* CellIndex::local_edge_index_of *)
local_edge_index_of(c, e) ==
    LET match(le) == /\ local_edge_origin(c, le) = e.origin
                     /\ local_edge_target(c, le) = apply_step(e.origin, <<e.axis, 1>>)
    IN  IF \E le \in LocalEdges : match(le)
        THEN Some(CHOOSE le \in LocalEdges : match(le))
        ELSE None

(* UniformGrid::cells_adjacent_to_edge: the up to 4 cells around an edge, without the Nones *)
cells_adjacent_to_edge(g, e) ==
    LET o == e.origin
        b == CHOOSE a \in orthogonal_axes(e.axis) : \A a2 \in orthogonal_axes(e.axis) : a <= a2
        c == CHOOSE a \in orthogonal_axes(e.axis) : a # b
        cand == << o, apply_step(o, <<b, -1>>), apply_step(o, <<c, -1>>),
                   apply_step(apply_step(o, <<b, -1>>), <<c, -1>>) >>
    IN  SelectSeq(cand, LAMBDA x : cell_in_grid(g, x))

(* GridBoundaryFaceFlags::classify_point: the outer faces a point lies on *)
classify_point(g, p) ==
    {da \in DirectedAxes : IF da[2] < 0 THEN p[da[1]] = 0 ELSE p[da[1]] = g[da[1]]}

(* GridBoundaryFaceFlags::classify_cell: the outer faces a cell touches *)
classify_cell(g, c) ==
    {da \in DirectedAxes : IF da[2] < 0 THEN c[da[1]] = 0 ELSE c[da[1]] = g[da[1]] - 1}

(* iter_individual: the set flags in the order of ALL_DIRECTED_AXES *)
iter_individual(flags) == SelectSeq(ALL_DIRECTED_AXES, LAMBDA da : da \in flags)


(***************************************************************************)
(* Cell data of marching cubes (marching_cubes.rs)                         *)
(***************************************************************************)
iso_surface_threshold == 1

(* RelativeToThreshold::is_above; None stands for the panic on Indeterminate *)
is_above(flag) ==
    CASE flag = "Below" -> Some(FALSE)
      [] flag = "Above" -> Some(TRUE)
      [] OTHER -> None

CellData_default ==
    [iso_surface_vertices |-> [e \in LocalEdges |-> None],
     corner_above_threshold |-> [c \in LocalPoints |-> "Indeterminate"]]

(* Faulty variant of interpolated_vertex: the two values are exchanged *)
interpolated_vertex_values_exchanged(off, point, neighbor, point_value, neighbor_value) ==
    [p |-> vadd(off, point), q |-> vadd(off, neighbor), vp |-> neighbor_value, vq |-> point_value]

(* An interpolated vertex: alpha = (threshold - vp) / (vq - vp) on the edge from p to q *)
interpolated_vertex(off, point, neighbor, point_value, neighbor_value) ==
    [p |-> vadd(off, point), q |-> vadd(off, neighbor), vp |-> point_value, vq |-> neighbor_value]

(* Faulty variant of record_vertex_in_cell: marks the corner, forgets the vertex index *)
record_flag_in_cell(st, g, cell, edge, neighbor, vertex_index) ==
    LET f == flatten_cell_index(g, cell)
        entry == IF f \in DOMAIN st.cell_data THEN st.cell_data[f] ELSE CellData_default
        local_vertex_index == unwrap(local_point_index_of(cell, neighbor))
    IN  [st EXCEPT !.cell_data = map_insert(@, f,
            [entry EXCEPT !.corner_above_threshold[local_vertex_index] = "Above"])]

(* Faulty variant of record_vertex_in_cell: the entry of the cell is started afresh *)
record_vertex_in_fresh_cell(st, g, cell, edge, neighbor, vertex_index) ==
    LET f == flatten_cell_index(g, cell)
        local_edge_index == unwrap(local_edge_index_of(cell, edge))
        local_vertex_index == unwrap(local_point_index_of(cell, neighbor))
    IN  IF st.panic # "" THEN st
        ELSE [st EXCEPT !.cell_data = map_insert(@, f,
                 [iso_surface_vertices |->
                      [CellData_default.iso_surface_vertices EXCEPT
                           ![local_edge_index] = Some(vertex_index)],
                  corner_above_threshold |->
                      [CellData_default.corner_above_threshold EXCEPT
                           ![local_vertex_index] = "Above"]])]

(* The body of the loop over the cells adjacent to a crossing edge *)
record_vertex_in_cell(st, g, cell, edge, neighbor, vertex_index) ==
    LET f == flatten_cell_index(g, cell)
        entry == IF f \in DOMAIN st.cell_data THEN st.cell_data[f] ELSE CellData_default
        local_edge_index == unwrap(local_edge_index_of(cell, edge))
        local_vertex_index == unwrap(local_point_index_of(cell, neighbor))
    IN  IF st.panic # "" THEN st
        ELSE IF is_some(entry.iso_surface_vertices[local_edge_index])
        THEN [st EXCEPT !.panic = "Overwriting already existing vertex"]
        ELSE [st EXCEPT !.cell_data = map_insert(@, f,
                 [iso_surface_vertices |->
                      [entry.iso_surface_vertices EXCEPT ![local_edge_index] = Some(vertex_index)],
                  corner_above_threshold |->
                      [entry.corner_above_threshold EXCEPT ![local_vertex_index] = "Above"]])]

(* Faulty variant of record_vertex_in_cells: only the first adjacent cell gets the vertex *)
record_vertex_in_first_cell(st, g, cells, edge, neighbor, vertex_index) ==
    IF cells = << >> THEN st
    ELSE record_vertex_in_cell(st, g, Head(cells), edge, neighbor, vertex_index)

RECURSIVE record_vertex_in_cells(_, _, _, _, _, _)
record_vertex_in_cells(st, g, cells, edge, neighbor, vertex_index) ==
    IF cells = << >> THEN st
    ELSE record_vertex_in_cells(
             record_vertex_in_cell(st, g, Head(cells), edge, neighbor, vertex_index),
             g, Tail(cells), edge, neighbor, vertex_index)

(* Interpolate the vertex of a crossing edge, push it and store its index in the adjacent cells *)
store_interpolated_vertex(st, g, off, point, neighbor, point_value, neighbor_value) ==
    LET vertex_index == Len(st.vertices)
        pushed == [st EXCEPT !.vertices = Append(@,
                      interpolated_vertex(off, point, neighbor, point_value, neighbor_value))]
    IN  record_vertex_in_cells(pushed, g, cells_adjacent_to_edge(g, edge_of(point, neighbor)),
                               edge_of(point, neighbor), neighbor, vertex_index)

(* Closures of the skip-boundary and the stitching variant *)
point_is_on_outer_boundary(g, p) == classify_point(g, p) # {}

point_is_on_stitching_surface(g, stitching_axis, p) ==
    p[stitching_axis] = 0 \/ p[stitching_axis] = points_per_dim(g)[stitching_axis] - 1

point_is_outside_stitching(g, stitching_axis, p) ==
    \E axis \in orthogonal_axes(stitching_axis) :
        p[axis] = 0 \/ p[axis] = points_per_dim(g)[axis] - 1

(* Faulty variant of edge_gets_vertex_full: a present neighbour is enough *)
edge_gets_vertex_any_present_neighbor(density_map, flat_neighbor_index) ==
    flat_neighbor_index \in DOMAIN density_map

(* Which density map entries the vertex loop of each variant works on *)
entry_is_visited_full(point_value) == ~(point_value > iso_surface_threshold)

entry_is_visited_skip_boundary(g, point, point_value) ==
    /\ classify_point(g, point) = {}
    /\ ~(point_value > iso_surface_threshold)

(* Faulty variant of entry_is_visited_stitching: points on the orthogonal outer faces *)
(* are visited too                                                                    *)
entry_is_visited_below_threshold(g, stitching_axis, point, point_value) ==
    ~(point_value > iso_surface_threshold)

entry_is_visited_stitching(g, stitching_axis, point, point_value) ==
    /\ ~(point_value > iso_surface_threshold)
    /\ ~point_is_outside_stitching(g, stitching_axis, point)

(* Which neighbour edges of a visited entry get a vertex, per variant *)
edge_gets_vertex_full(density_map, flat_neighbor_index) ==
    /\ flat_neighbor_index \in DOMAIN density_map
    /\ density_map[flat_neighbor_index] > iso_surface_threshold

edge_gets_vertex_skip_boundary(g, density_map, neighbor) ==
    /\ flatten_point_index(g, neighbor) \in DOMAIN density_map
    /\ density_map[flatten_point_index(g, neighbor)] > iso_surface_threshold
    /\ ~point_is_on_outer_boundary(g, neighbor)

(* Faulty variant of edge_gets_vertex_stitching: a neighbour of lower density is enough *)
edge_gets_vertex_towards_lower_neighbor(g, stitching_axis, density_map, point, neighbor) ==
    /\ flatten_point_index(g, neighbor) \in DOMAIN density_map
    /\ flatten_point_index(g, point) \in DOMAIN density_map
    /\ density_map[flatten_point_index(g, neighbor)] < density_map[flatten_point_index(g, point)]
    /\ ~(point_is_on_stitching_surface(g, stitching_axis, point)
            /\ point_is_on_stitching_surface(g, stitching_axis, neighbor))
    /\ ~point_is_outside_stitching(g, stitching_axis, neighbor)

(* Faulty variant of edge_gets_vertex_stitching: edges on the stitching surfaces are not skipped *)
edge_gets_vertex_also_on_stitching_surface(g, stitching_axis, density_map, point, neighbor) ==
    /\ flatten_point_index(g, neighbor) \in DOMAIN density_map
    /\ density_map[flatten_point_index(g, neighbor)] > iso_surface_threshold
    /\ ~point_is_outside_stitching(g, stitching_axis, neighbor)

edge_gets_vertex_stitching(g, stitching_axis, density_map, point, neighbor) ==
    /\ flatten_point_index(g, neighbor) \in DOMAIN density_map
    /\ density_map[flatten_point_index(g, neighbor)] > iso_surface_threshold
    /\ ~(point_is_on_stitching_surface(g, stitching_axis, point)
            /\ point_is_on_stitching_surface(g, stitching_axis, neighbor))
    /\ ~point_is_outside_stitching(g, stitching_axis, neighbor)

(* ctx: [variant, grid, offset, stitching_axis, density_map] *)
entry_is_visited(ctx, point, point_value) ==
    CASE ctx.variant = "full" -> entry_is_visited_full(point_value)
      [] ctx.variant = "skip_boundary" ->
             entry_is_visited_skip_boundary(ctx.grid, point, point_value)
      [] OTHER -> entry_is_visited_stitching(ctx.grid, ctx.stitching_axis, point, point_value)

edge_gets_vertex(ctx, point, neighbor) ==
    CASE ctx.variant = "full" ->
             edge_gets_vertex_full(ctx.density_map, flatten_point_index(ctx.grid, neighbor))
      [] ctx.variant = "skip_boundary" ->
             edge_gets_vertex_skip_boundary(ctx.grid, ctx.density_map, neighbor)
      [] OTHER -> edge_gets_vertex_stitching(ctx.grid, ctx.stitching_axis, ctx.density_map,
                                             point, neighbor)

(* The loop over neighborhood.neighbor_edge_iter() *)
RECURSIVE visit_neighbor_edges(_, _, _, _, _)
visit_neighbor_edges(st, ctx, point, point_value, i) ==
    IF i > Len(ALL_DIRECTED_AXES) \/ st.panic # "" THEN st
    ELSE LET nb == get_point_neighbor(ctx.grid, point, ALL_DIRECTED_AXES[i])
         IN  IF is_some(nb) /\ edge_gets_vertex(ctx, point, unwrap(nb))
             THEN visit_neighbor_edges(
                      store_interpolated_vertex(st, ctx.grid, ctx.offset, point, unwrap(nb),
                          point_value,
                          ctx.density_map[flatten_point_index(ctx.grid, unwrap(nb))]),
                      ctx, point, point_value, i + 1)
             ELSE visit_neighbor_edges(st, ctx, point, point_value, i + 1)

(* The closure given to density_map.for_each *)
visit_entry(st, ctx, flat_point_index) ==
    LET point == try_unflatten_point_index(ctx.grid, flat_point_index)
        point_value == ctx.density_map[flat_point_index]
    IN  IF st.panic # "" THEN st
        ELSE IF ctx.variant # "skip_boundary" /\ point_value > iso_surface_threshold THEN st
        ELSE IF is_none(point)
        THEN [st EXCEPT !.panic = "Flat point index does not belong to grid"]
        ELSE IF entry_is_visited(ctx, unwrap(point), point_value)
        THEN visit_neighbor_edges(st, ctx, unwrap(point), point_value, 1)
        ELSE st

(* The entries keys[lo..hi] visited in this order *)
RECURSIVE visit_entries(_, _, _, _, _)
visit_entries(st, ctx, keys, lo, hi) ==
    IF lo > hi \/ st.panic # "" THEN st
    ELSE IF lo = hi THEN visit_entry(st, ctx, keys[lo])
    ELSE visit_entries(visit_entries(st, ctx, keys, lo, (lo + hi) \div 2),
                       ctx, keys, (lo + hi) \div 2 + 1, hi)

(* Pass A: density_map.for_each in the given iteration order of the keys *)
generate_iso_surface_vertices(st, ctx, keys) == visit_entries(st, ctx, keys, 1, Len(keys))

(* Whether the point of a corner has a value above the threshold in the density map *)
present_corner_is_above(g, density_map, cell, local_point_index) ==
    LET flat_point_index == flatten_point_index(g, global_point_index_of(cell, local_point_index))
    IN  /\ flat_point_index \in DOMAIN density_map
        /\ density_map[flat_point_index] > iso_surface_threshold

(* Faulty variant of corner_relative_to_threshold: the second pass marks every corner Below *)
corner_is_below(g, density_map, cell, local_point_index) == "Below"

(* The flag of a corner as the second pass computes it *)
corner_relative_to_threshold(g, density_map, cell, local_point_index) ==
    LET flat_point_index == flatten_point_index(g, global_point_index_of(cell, local_point_index))
    IN  IF flat_point_index \in DOMAIN density_map
        THEN IF density_map[flat_point_index] > iso_surface_threshold THEN "Above" ELSE "Below"
        ELSE "Below"

(* Faulty variant of relative_to_threshold_postprocessing: corners marked Above are *)
(* skipped in every variant, also in the stitching one                              *)
keep_corners_marked_above(cell_data_map, g, density_map, keep_above) ==
    [f \in DOMAIN cell_data_map |->
        [cell_data_map[f] EXCEPT !.corner_above_threshold =
            [lp \in LocalPoints |->
                IF cell_data_map[f].corner_above_threshold[lp] = "Above"
                THEN "Above"
                ELSE IF present_corner_is_above(g, density_map,
                            unwrap(try_unflatten_cell_index(g, f)), lp)
                     THEN "Above" ELSE "Below"]]]

(* Pass B; keep_above: corners already marked Above are skipped (not in the stitching variant) *)
relative_to_threshold_postprocessing(cell_data_map, g, density_map, keep_above) ==
    [f \in DOMAIN cell_data_map |->
        [cell_data_map[f] EXCEPT !.corner_above_threshold =
            [lp \in LocalPoints |->
                IF keep_above /\ cell_data_map[f].corner_above_threshold[lp] = "Above"
                THEN "Above"
                ELSE corner_relative_to_threshold(g, density_map,
                         unwrap(try_unflatten_cell_index(g, f)), lp)]]]

(* assert_cell_data_point_data_consistency: TRUE iff no assertion fails *)
assert_cell_data_point_data_consistency(density_map, cell_data_map, g) ==
    \A f \in DOMAIN cell_data_map :
        LET cell == unwrap(try_unflatten_cell_index(g, f))
            flat(lp) == flatten_point_index(g, global_point_index_of(cell, lp))
            has_missing_point_data == \E lp \in LocalPoints : flat(lp) \notin DOMAIN density_map
            has_point_data_above_threshold ==
                \E lp \in LocalPoints : /\ flat(lp) \in DOMAIN density_map
                                        /\ density_map[flat(lp)] > iso_surface_threshold
            has_point_above_threshold ==
                \E lp \in LocalPoints : cell_data_map[f].corner_above_threshold[lp] = "Above"
            has_iso_surface_vertex ==
                \E le \in LocalEdges : is_some(cell_data_map[f].iso_surface_vertices[le])
        IN  /\ ~(has_missing_point_data /\ has_point_data_above_threshold)
            /\ ~(has_missing_point_data /\ has_point_above_threshold)
            /\ ~(has_missing_point_data /\ has_iso_surface_vertex)

interpolation_state(cell_data_map, vertices) ==
    [cell_data |-> cell_data_map, vertices |-> vertices, panic |-> ""]

(* interpolate_points_to_cell_data: [cell_data, vertices, panic] *)
interpolate_points_to_cell_data(g, density_map, keys, vertices, debug) ==
    LET ctx == [variant |-> "full", grid |-> g, offset |-> <<0, 0, 0>>, stitching_axis |-> 1,
                density_map |-> density_map]
        a == generate_iso_surface_vertices(interpolation_state(new_map, vertices), ctx, keys)
        b == relative_to_threshold_postprocessing(a.cell_data, g, density_map, TRUE)
    IN  IF a.panic # "" THEN a
        ELSE IF debug /\ ~assert_cell_data_point_data_consistency(density_map, b, g)
        THEN [a EXCEPT !.cell_data = b, !.panic = "cell data inconsistent with point data"]
        ELSE [a EXCEPT !.cell_data = b]

(* The boundary density map of one face: every present point of the face and its *)
(* inward neighbour, if present, with their values                                *)
boundary_density_map_of(g, density_map, boundary) ==
    LET on_face == {f \in DOMAIN density_map :
                        boundary \in classify_point(g, unwrap(try_unflatten_point_index(g, f)))}
        second_row == {flatten_point_index(g, apply_step(unwrap(try_unflatten_point_index(g, f)),
                                                            opposite(boundary))) : f \in on_face}
        keys == on_face \cup (second_row \cap DOMAIN density_map)
    IN  [f \in keys |-> density_map[f]]

(* interpolate_points_to_cell_data_skip_boundary: *)
(* [cell_data, vertices, panic, boundary_density_maps]; every index is one of the subdomain grid *)
interpolate_points_to_cell_data_skip_boundary(g, off, density_map, keys, vertices) ==
    LET ctx == [variant |-> "skip_boundary", grid |-> g, offset |-> off, stitching_axis |-> 1,
                density_map |-> density_map]
        a == generate_iso_surface_vertices(interpolation_state(new_map, vertices), ctx, keys)
        b == relative_to_threshold_postprocessing(a.cell_data, g, density_map, TRUE)
        no_maps == [da \in DirectedAxes |-> new_map]
    IN  IF ~(\A axis \in Axes : g[axis] > 1 + 1)
        THEN [cell_data |-> new_map, vertices |-> vertices, boundary_density_maps |-> no_maps,
              panic |-> "needs more than 2 cells in each dimension"]
        ELSE IF \E f \in DOMAIN density_map : is_none(try_unflatten_point_index(g, f))
        THEN [cell_data |-> a.cell_data, vertices |-> a.vertices,
              boundary_density_maps |-> no_maps,
              panic |-> "Flat point index does not belong to grid"]
        ELSE [cell_data |-> IF a.panic = "" THEN b ELSE a.cell_data, vertices |-> a.vertices,
              boundary_density_maps |->
                  [da \in DirectedAxes |-> boundary_density_map_of(g, density_map, da)],
              panic |-> a.panic]

(***************************************************************************)
(* Triangulation                                                           *)
(***************************************************************************)
(* CellData::are_vertices_above: None if a corner is Indeterminate (panic) *)
are_vertices_above(cell_data) ==
    IF \E lp \in LocalPoints : is_none(is_above(cell_data.corner_above_threshold[lp]))
    THEN None
    ELSE Some([lp \in LocalPoints |-> unwrap(is_above(cell_data.corner_above_threshold[lp]))])

(* The local edges whose two corners are on different sides *)
sign_changing_edges(above) ==
    {le \in LocalEdges :
        above[CELL_LOCAL_EDGES[le + 1][1]] # above[CELL_LOCAL_EDGES[le + 1][2]]}

(* marching_cubes_lut is not part of the sources at hand. The table maps a corner mask  *)
(* to triangles that are triples of the mask's sign changing edges and use each of them; *)
(* it is modelled by the fan over these edges in ascending order.                        *)
marching_cubes_triangulation_iter(above) ==
    LET es == SortedSeq(sign_changing_edges(above))
    IN  [i \in 1..(IF Len(es) >= 3 THEN Len(es) - 2 ELSE 0) |-> <<es[1], es[i + 1], es[i + 2]>>]

(* Faulty variant of TriangulationSkipBoundaryCells: boundary cells are triangulated too *)
TriangulationOfEveryCell(g, flat_cell_index) == TRUE

(* TriangulationCriterion::triangulate_cell of the three criteria *)
TriangulationIdentityCriterion(g, flat_cell_index) == TRUE

TriangulationSkipBoundaryCells(g, flat_cell_index) ==
    classify_cell(g, unwrap(try_unflatten_cell_index(g, flat_cell_index))) = {}

TriangulationStitchingInterior(g, stitching_axis, flat_cell_index) ==
    LET index == unwrap(try_unflatten_cell_index(g, flat_cell_index))
    IN  ~\E axis \in orthogonal_axes(stitching_axis) :
            index[axis] = 0 \/ index[axis] = g[axis] - 1

triangulate_cell(criterion, g, stitching_axis, flat_cell_index) ==
    CASE criterion = "identity" -> TriangulationIdentityCriterion(g, flat_cell_index)
      [] criterion = "skip_boundary" -> TriangulationSkipBoundaryCells(g, flat_cell_index)
      [] OTHER -> TriangulationStitchingInterior(g, stitching_axis, flat_cell_index)

(* DefaultTriangleGenerator::triangle_connectivity: None if a vertex is missing (panic) *)
triangle_connectivity(cell_data, edge_indices) ==
    IF \E i \in 1..3 : is_none(cell_data.iso_surface_vertices[edge_indices[i]])
    THEN None
    ELSE Some([i \in 1..3 |-> unwrap(cell_data.iso_surface_vertices[edge_indices[i]])])

(* The triangles of one cell: [triangles, panic] *)
triangulate_one_cell(cell_data) ==
    LET above == are_vertices_above(cell_data)
        tris == marching_cubes_triangulation_iter(unwrap(above))
        bad == {i \in 1..Len(tris) : is_none(triangle_connectivity(cell_data, tris[i]))}
        n_good == IF bad = {} THEN Len(tris)
                  ELSE (CHOOSE i \in bad : \A j \in bad : i <= j) - 1
    IN  IF is_none(above) THEN [triangles |-> << >>, panic |-> "Indeterminate corner"]
        ELSE [triangles |-> [i \in 1..n_good |-> unwrap(triangle_connectivity(cell_data, tris[i]))],
              panic |-> IF bad = {} THEN "" ELSE "Missing iso surface vertex"]

(* triangulate_with_criterion over the cells in iteration order:                  *)
(* ts: [triangles, triangle_cells, panic]; triangle_cells names the cell of each   *)
(* triangle pushed by this call                                                   *)
RECURSIVE triangulate_cells(_, _, _, _, _, _)
triangulate_cells(ts, g, stitching_axis, cell_data_map, criterion, cells) ==
    IF cells = << >> \/ ts.panic # "" THEN ts
    ELSE LET f == Head(cells)
             one == triangulate_one_cell(cell_data_map[f])
         IN  IF ~triangulate_cell(criterion, g, stitching_axis, f)
             THEN triangulate_cells(ts, g, stitching_axis, cell_data_map, criterion, Tail(cells))
             ELSE triangulate_cells(
                      [triangles |-> ts.triangles \o one.triangles,
                       triangle_cells |-> ts.triangle_cells
                                              \o [i \in 1..Len(one.triangles) |-> f],
                       panic |-> one.panic],
                      g, stitching_axis, cell_data_map, criterion, Tail(cells))

(* Faulty variant of triangulate_with_criterion: the triangles of before are dropped *)
triangulate_into_fresh_list(g, stitching_axis, cell_data_map, triangles, criterion, cells) ==
    triangulate_cells([triangles |-> << >>, triangle_cells |-> << >>, panic |-> ""],
                      g, stitching_axis, cell_data_map, criterion, cells)

triangulate_with_criterion(g, stitching_axis, cell_data_map, triangles, criterion, cells) ==
    triangulate_cells([triangles |-> triangles, triangle_cells |-> << >>, panic |-> ""],
                      g, stitching_axis, cell_data_map, criterion, cells)

(* The keys of a map in the order its iteration visits them; the order of a hash map is *)
(* not specified, the model draws it from IterOrders                                     *)
map_iter_keys(m, order) ==
    IF order = "ascending" THEN SortedSeq(DOMAIN m) ELSE Reverse(SortedSeq(DOMAIN m))

IterOrders == {"ascending", "descending"}

(* triangulate_density_map_append: [mesh, marching_cubes_data, triangle_cells, panic] *)
triangulate_density_map_append(g, sub_offset, sub_grid, dm, order, debug, m) ==
    LET use_subdomain == is_some(sub_grid) /\ is_some(sub_offset)
        interp == IF use_subdomain
                  THEN interpolate_points_to_cell_data_skip_boundary(unwrap(sub_grid),
                           unwrap(sub_offset), dm, map_iter_keys(dm, order), m.vertices)
                  ELSE interpolate_points_to_cell_data(g, dm, map_iter_keys(dm, order),
                           m.vertices, debug)
        tri == triangulate_with_criterion(IF use_subdomain THEN unwrap(sub_grid) ELSE g, 1,
                   interp.cell_data, m.triangles,
                   IF use_subdomain THEN "skip_boundary" ELSE "identity",
                   map_iter_keys(interp.cell_data, order))
    IN  IF interp.panic # ""
        THEN [mesh |-> [vertices |-> interp.vertices, triangles |-> m.triangles],
              marching_cubes_data |-> interp.cell_data, triangle_cells |-> << >>,
              panic |-> interp.panic]
        ELSE [mesh |-> [vertices |-> interp.vertices, triangles |-> tri.triangles],
              marching_cubes_data |-> interp.cell_data, triangle_cells |-> tri.triangle_cells,
              panic |-> tri.panic]

(***************************************************************************)
(* Subdomains, surface patches and their boundary data                     *)
(***************************************************************************)
(* SubdomainGrid::new *)
SubdomainGrid_new(global_grid, sub_grid, sub_offset) ==
    [global_grid |-> global_grid, subdomain_grid |-> sub_grid, subdomain_offset |-> sub_offset]

(* SubdomainGrid::map_flat_point_index_to: unflatten in source, to global, to target, *)
(* flatten if the point is one of the target                                          *)
map_flat_point_index_to(source, target, flat_point_index) ==
    LET p == try_unflatten_point_index(source.subdomain_grid, flat_point_index)
        q == vsub(vadd(unwrap(p), source.subdomain_offset), target.subdomain_offset)
    IN  IF is_some(p) /\ point_in_grid(target.subdomain_grid, q)
        THEN Some(flatten_point_index(target.subdomain_grid, q))
        ELSE None

(* SubdomainGrid::map_flat_cell_index_to *)
map_flat_cell_index_to(source, target, flat_cell_index) ==
    LET c == try_unflatten_cell_index(source.subdomain_grid, flat_cell_index)
        d == vsub(vadd(unwrap(c), source.subdomain_offset), target.subdomain_offset)
    IN  IF is_some(c) /\ cell_in_grid(target.subdomain_grid, d)
        THEN Some(flatten_cell_index(target.subdomain_grid, d))
        ELSE None

(* A map of flat point or cell indices (kind) of the source subdomain with its keys    *)
(* mapped to the target subdomain; entries that cannot be mapped are dropped.          *)
map_keys_to(m, source, target, kind) ==
    LET map_index(k) == IF kind = "point" THEN map_flat_point_index_to(source, target, k)
                        ELSE map_flat_cell_index_to(source, target, k)
        map_back(t) == IF kind = "point" THEN map_flat_point_index_to(target, source, t)
                       ELSE map_flat_cell_index_to(target, source, t)
    IN  [t \in {unwrap(map_index(k)) : k \in {k \in DOMAIN m : is_some(map_index(k))}} |->
            m[unwrap(map_back(t))]]

BoundaryData_default == [boundary_density_map |-> new_map, boundary_cell_data |-> new_map]

(* Faulty variant of apply_vertex_offset: the indices are left as they are *)
keep_vertex_indices(cell_data, vertex_offset) == cell_data

(* The loop `for v in cell_data.iso_surface_vertices.iter_mut().flatten() { *v += offset }` *)
apply_vertex_offset(cell_data, vertex_offset) ==
    [cell_data EXCEPT !.iso_surface_vertices =
        [le \in LocalEdges |-> IF is_some(@[le]) THEN Some(unwrap(@[le]) + vertex_offset)
                                                 ELSE None]]

(* collect_boundary_cell_data: per face the cell data of the cells on this face *)
collect_boundary_cell_data(subdomain, cell_data_map) ==
    [da \in DirectedAxes |->
        [f \in {f \in DOMAIN cell_data_map :
                    da \in classify_cell(subdomain.subdomain_grid,
                                         unwrap(try_unflatten_cell_index(subdomain.subdomain_grid, f)))}
            |-> cell_data_map[f]]]

(* Faulty variant of to_domain: the keys are mapped, the vertex offset is not applied *)
to_domain_without_offset(data, target_domain, source_domain, vertex_offset) ==
    [boundary_density_map |->
         map_keys_to(data.boundary_density_map, source_domain, target_domain, "point"),
     boundary_cell_data |->
         map_keys_to(data.boundary_cell_data, source_domain, target_domain, "cell")]

(* BoundaryData::to_domain; vertex_offset is an Option *)
to_domain(data, target_domain, source_domain, vertex_offset) ==
    LET cells == map_keys_to(data.boundary_cell_data, source_domain, target_domain, "cell")
    IN  [boundary_density_map |->
             map_keys_to(data.boundary_density_map, source_domain, target_domain, "point"),
         boundary_cell_data |->
             [f \in DOMAIN cells |->
                 IF is_some(vertex_offset)
                 THEN apply_vertex_offset(cells[f], unwrap(vertex_offset))
                 ELSE cells[f]]]

(* Faulty variant of average_density: the sum is not halved *)
sum_of_densities(density, density_contribution) == density + density_contribution

(* The average `*density += contribution; *density /= 2`; the densities of the model are *)
(* integers, the quotient is exact for the values that meet here                          *)
average_density(density, density_contribution) == (density + density_contribution) \div 2

(* merge_boundary_data: [boundary_density_map, boundary_cell_data, panic] *)
merge_boundary_data(target_subdomain, negative_subdomain, negative_data, positive_subdomain, positive_data, positive_vertex_offset) ==
    LET neg_density == map_keys_to(negative_data.boundary_density_map, negative_subdomain,
                                   target_subdomain, "point")
        pos_density == map_keys_to(positive_data.boundary_density_map, positive_subdomain,
                                   target_subdomain, "point")
        neg_cells == map_keys_to(negative_data.boundary_cell_data, negative_subdomain,
                                 target_subdomain, "cell")
        pos_cells == map_keys_to(positive_data.boundary_cell_data, positive_subdomain,
                                 target_subdomain, "cell")
    IN  [boundary_density_map |->
             [f \in DOMAIN neg_density \cup DOMAIN pos_density |->
                 IF f \notin DOMAIN pos_density THEN neg_density[f]
                 ELSE IF f \notin DOMAIN neg_density THEN pos_density[f]
                 ELSE average_density(neg_density[f], pos_density[f])],
         boundary_cell_data |->
             [f \in DOMAIN neg_cells \cup DOMAIN pos_cells |->
                 IF f \in DOMAIN neg_cells THEN neg_cells[f]
                 ELSE apply_vertex_offset(pos_cells[f], positive_vertex_offset)],
         panic |-> IF DOMAIN neg_cells \cap DOMAIN pos_cells # {}
                   THEN "Merge conflict: there is duplicate cell data for this cell index"
                   ELSE ""]

(* interpolate_points_to_cell_data_stitching: [cell_data, vertices, panic]; off is the *)
(* place of the grid in the global grid, cell_data_map the input that is extended      *)
interpolate_points_to_cell_data_stitching(g, off, density_map, keys, stitching_axis, vertices, cell_data_map, debug) ==
    LET ctx == [variant |-> "stitching", grid |-> g, offset |-> off,
                stitching_axis |-> stitching_axis, density_map |-> density_map]
        a == generate_iso_surface_vertices(interpolation_state(cell_data_map, vertices), ctx, keys)
        b == relative_to_threshold_postprocessing(a.cell_data, g, density_map, FALSE)
    IN  IF a.panic # "" THEN a
        ELSE IF debug /\ ~assert_cell_data_point_data_consistency(density_map, b, g)
        THEN [a EXCEPT !.cell_data = b, !.panic = "cell data inconsistent with point data"]
        ELSE [a EXCEPT !.cell_data = b]

(* The cells of triangles as cells of the global grid *)
global_cells_of(subdomain, flat_cells) ==
    [i \in 1..Len(flat_cells) |->
        vadd(unwrap(try_unflatten_cell_index(subdomain.subdomain_grid, flat_cells[i])),
             subdomain.subdomain_offset)]

(* triangulate_density_map_with_stitching_data: the SurfacePatch of a subdomain; next to  *)
(* the fields of the patch the record holds the panic that ended the call, the cell data *)
(* and density map of the interpolation and the global cell of each triangle              *)
triangulate_density_map_with_stitching_data(g, sub_offset, sub_grid, dm, order) ==
    LET subdomain == SubdomainGrid_new(g, sub_grid, sub_offset)
        interp == interpolate_points_to_cell_data_skip_boundary(sub_grid, sub_offset, dm,
                      map_iter_keys(dm, order), << >>)
        boundary_cell_data == collect_boundary_cell_data(subdomain, interp.cell_data)
        tri == triangulate_with_criterion(sub_grid, 1, interp.cell_data, << >>, "skip_boundary",
                   map_iter_keys(interp.cell_data, order))
    IN  [mesh |-> [vertices |-> interp.vertices,
                   triangles |-> IF interp.panic = "" THEN tri.triangles ELSE << >>],
         subdomain |-> subdomain,
         data |-> [da \in DirectedAxes |->
                      [boundary_density_map |-> interp.boundary_density_maps[da],
                       boundary_cell_data |-> boundary_cell_data[da]]],
         stitching_level |-> 0,
         panic |-> IF interp.panic # "" THEN interp.panic ELSE tri.panic,
         cell_data |-> interp.cell_data,
         interpolated_density_map |-> dm,
         triangle_cells |-> IF interp.panic = ""
                            THEN global_cells_of(subdomain, tri.triangle_cells) ELSE << >>]

(* TriMesh3d::append: the other vertices are appended, the other triangles are appended *)
(* with their indices shifted by the number of vertices of before                        *)
TriMesh3d_append(m, other) ==
    [vertices |-> m.vertices \o other.vertices,
     triangles |-> m.triangles \o
         [i \in 1..Len(other.triangles) |->
             [j \in 1..3 |-> other.triangles[i][j] + Len(m.vertices)]]]

(* Faulty variant of compute_stitching_domain: the subdomains are not compared *)
compute_stitching_domain_unchecked(stitching_axis, global_grid, negative_subdomain, positive_subdomain) ==
    [subdomain |->
         SubdomainGrid_new(global_grid,
             [negative_subdomain.subdomain_grid EXCEPT ![stitching_axis] = 1 + 1],
             [negative_subdomain.subdomain_offset EXCEPT ![stitching_axis] =
                 @ + negative_subdomain.subdomain_grid[stitching_axis] - 1]),
     panic |-> ""]

(* compute_stitching_domain: [subdomain, panic] *)
compute_stitching_domain(stitching_axis, global_grid, negative_subdomain, positive_subdomain) ==
    LET lower_corner_end ==
            [negative_subdomain.subdomain_offset EXCEPT ![stitching_axis] =
                @ + negative_subdomain.subdomain_grid[stitching_axis]]
        n_cells_per_dim_neg == [negative_subdomain.subdomain_grid EXCEPT ![stitching_axis] = 1 + 1]
        n_cells_per_dim_pos == [positive_subdomain.subdomain_grid EXCEPT ![stitching_axis] = 1 + 1]
        stitching_grid_offset ==
            [negative_subdomain.subdomain_offset EXCEPT ![stitching_axis] =
                @ + negative_subdomain.subdomain_grid[stitching_axis] - 1]
    IN  [subdomain |-> SubdomainGrid_new(global_grid, n_cells_per_dim_neg, stitching_grid_offset),
         panic |->
             IF negative_subdomain.global_grid # global_grid
                    \/ positive_subdomain.global_grid # global_grid
             THEN "The global grid of the two subdomains that should be stitched is not identical!"
             ELSE IF lower_corner_end # positive_subdomain.subdomain_offset
             THEN "The two subdomains that should be stitched do not meet directly!"
             ELSE IF n_cells_per_dim_neg # n_cells_per_dim_pos
             THEN "The cross sections of the two subdomains that should be stitched is not identical!"
             ELSE ""]

(* compute_stitching_result_domain *)
compute_stitching_result_domain(stitching_axis, global_grid, negative_subdomain, positive_subdomain) ==
    SubdomainGrid_new(global_grid,
        [negative_subdomain.subdomain_grid EXCEPT ![stitching_axis] =
            @ + positive_subdomain.subdomain_grid[stitching_axis]],
        negative_subdomain.subdomain_offset)

(* Faulty variant of overlay_cell_data: the entry merged from the two sides is kept *)
keep_existing_cell_data(existing_cell_data, cell_data) == existing_cell_data

(* The closure of and_modify in stitch_meshes: a boundary cell of the slab laid over the *)
(* cell data merged from the two sides                                                   *)
overlay_cell_data(existing_cell_data, cell_data) ==
    [corner_above_threshold |-> cell_data.corner_above_threshold,
     iso_surface_vertices |->
         [le \in LocalEdges |->
             IF existing_cell_data.iso_surface_vertices[le] # cell_data.iso_surface_vertices[le]
             THEN cell_data.iso_surface_vertices[le]
             ELSE existing_cell_data.iso_surface_vertices[le]]]

overlay_cell_data_panics(existing_cell_data, cell_data) ==
    \E le \in LocalEdges :
        /\ existing_cell_data.iso_surface_vertices[le] # cell_data.iso_surface_vertices[le]
        /\ is_some(existing_cell_data.iso_surface_vertices[le])

(* The boundary data of a face orthogonal to the stitching axis in the result of       *)
(* stitch_meshes: [boundary_density_map, boundary_cell_data, panic]                     *)
merge_orthogonal_boundary_data(da, output_subdomain, stitching_subdomain, negative_side, positive_side, positive_vertex_offset, slab_boundary_cell_data) ==
    LET merged_data == merge_boundary_data(output_subdomain, negative_side.subdomain,
                           negative_side.data[da], positive_side.subdomain,
                           positive_side.data[da], positive_vertex_offset)
        slab_cells == map_keys_to(slab_boundary_cell_data[da], stitching_subdomain,
                                  output_subdomain, "cell")
        both == DOMAIN slab_cells \cap DOMAIN merged_data.boundary_cell_data
    IN  [boundary_density_map |-> merged_data.boundary_density_map,
         boundary_cell_data |->
             [f \in DOMAIN merged_data.boundary_cell_data \cup DOMAIN slab_cells |->
                 IF f \in both
                 THEN overlay_cell_data(merged_data.boundary_cell_data[f], slab_cells[f])
                 ELSE IF f \in DOMAIN slab_cells THEN slab_cells[f]
                 ELSE merged_data.boundary_cell_data[f]],
         panic |->
             IF merged_data.panic # "" THEN merged_data.panic
             ELSE IF \E f \in both :
                        overlay_cell_data_panics(merged_data.boundary_cell_data[f], slab_cells[f])
             THEN "Overwriting already existing vertex"
             ELSE ""]

(* A patch record for a call of stitch_meshes that panicked *)
panicked_patch(msg) ==
    [mesh |-> [vertices |-> << >>, triangles |-> << >>],
     subdomain |-> SubdomainGrid_new(<<0, 0, 0>>, <<0, 0, 0>>, <<0, 0, 0>>),
     data |-> [da \in DirectedAxes |-> BoundaryData_default],
     stitching_level |-> 0, panic |-> msg, cell_data |-> new_map,
     interpolated_density_map |-> new_map, triangle_cells |-> << >>]

(* stitch_meshes, the construction of the SurfacePatch: the boundary data of   *)
(* the six faces and the fields of the result                                  *)
stitch_meshes_output(stitching_axis, negative_side, positive_side, stitching_subdomain, merged_boundary_data, interp, tri, output_subdomain_grid, positive_vertex_offset, orthogonal) ==
    LET orthogonal_panics ==
            SelectSeq(ALL_DIRECTED_AXES,
                      LAMBDA da : da[1] # stitching_axis /\ orthogonal[da].panic # "")
    IN  IF orthogonal_panics # << >>
        THEN [panicked_patch(orthogonal[orthogonal_panics[1]].panic) EXCEPT
                 !.cell_data = interp.cell_data,
                 !.interpolated_density_map = merged_boundary_data.boundary_density_map]
        ELSE [mesh |-> [vertices |-> interp.vertices, triangles |-> tri.triangles],
              subdomain |-> output_subdomain_grid,
              data |->
                  [da \in DirectedAxes |->
                      IF da = <<stitching_axis, -1>>
                      THEN to_domain(negative_side.data[da], output_subdomain_grid,
                                     negative_side.subdomain, None)
                      ELSE IF da = <<stitching_axis, 1>>
                      THEN to_domain(positive_side.data[da], output_subdomain_grid,
                                     positive_side.subdomain, Some(positive_vertex_offset))
                      ELSE [boundary_density_map |-> orthogonal[da].boundary_density_map,
                            boundary_cell_data |-> orthogonal[da].boundary_cell_data]],
              stitching_level |-> Max2(negative_side.stitching_level,
                                       positive_side.stitching_level),
              panic |-> "",
              cell_data |-> interp.cell_data,
              interpolated_density_map |-> merged_boundary_data.boundary_density_map,
              triangle_cells |-> negative_side.triangle_cells \o positive_side.triangle_cells
                                     \o global_cells_of(stitching_subdomain, tri.triangle_cells)]

(* stitch_meshes, after the triangulation of the stitching domain: the domain  *)
(* of the result and the merge of the boundary data of the orthogonal faces    *)
stitch_meshes_triangulated(stitching_axis, negative_side, positive_side, stitching_subdomain, merged_boundary_data, interp, tri, boundary_cell_data, output_subdomain_grid, positive_vertex_offset) ==
    IF tri.panic # ""
    THEN [panicked_patch(tri.panic) EXCEPT
             !.cell_data = interp.cell_data,
             !.interpolated_density_map = merged_boundary_data.boundary_density_map]
    ELSE stitch_meshes_output(stitching_axis, negative_side, positive_side,
             stitching_subdomain, merged_boundary_data, interp, tri, output_subdomain_grid,
             positive_vertex_offset,
             [da \in {da \in DirectedAxes : da[1] # stitching_axis} |->
                 merge_orthogonal_boundary_data(da, output_subdomain_grid,
                     stitching_subdomain, negative_side, positive_side,
                     positive_vertex_offset, boundary_cell_data)])

(* stitch_meshes, after the interpolation in the stitching domain: the         *)
(* boundary cell data are collected and the stitching domain is triangulated   *)
stitch_meshes_interpolated(stitching_axis, negative_side, positive_side, order, stitching_subdomain, merged_boundary_data, output_mesh, positive_vertex_offset, interp) ==
    IF interp.panic # "" THEN panicked_patch(interp.panic)
    ELSE stitch_meshes_triangulated(stitching_axis, negative_side, positive_side,
             stitching_subdomain, merged_boundary_data, interp,
             triangulate_with_criterion(stitching_subdomain.subdomain_grid, stitching_axis,
                 interp.cell_data, output_mesh.triangles, "stitching_interior",
                 map_iter_keys(interp.cell_data, order)),
             collect_boundary_cell_data(stitching_subdomain, interp.cell_data),
             compute_stitching_result_domain(stitching_axis,
                 negative_side.subdomain.global_grid, negative_side.subdomain,
                 positive_side.subdomain),
             positive_vertex_offset)

(* stitch_meshes, after the merge of the boundary data of the two sides at     *)
(* the stitched face: the interpolation in the stitching domain                *)
stitch_meshes_merged(stitching_axis, negative_side, positive_side, order, debug, stitching_subdomain, output_mesh, positive_vertex_offset, merged_boundary_data) ==
    IF merged_boundary_data.panic # "" THEN panicked_patch(merged_boundary_data.panic)
    ELSE stitch_meshes_interpolated(stitching_axis, negative_side, positive_side, order,
             stitching_subdomain, merged_boundary_data, output_mesh, positive_vertex_offset,
             interpolate_points_to_cell_data_stitching(stitching_subdomain.subdomain_grid,
                 stitching_subdomain.subdomain_offset,
                 merged_boundary_data.boundary_density_map,
                 map_iter_keys(merged_boundary_data.boundary_density_map, order),
                 stitching_axis, output_mesh.vertices,
                 merged_boundary_data.boundary_cell_data, debug))

(* stitch_meshes, in the stitching domain: the meshes of the two sides are     *)
(* appended and their boundary data at the stitched face are merged            *)
stitch_meshes_in_domain(stitching_axis, negative_side, positive_side, order, debug, stitching, positive_vertex_offset) ==
    IF stitching.panic # "" THEN panicked_patch(stitching.panic)
    ELSE stitch_meshes_merged(stitching_axis, negative_side, positive_side, order, debug,
             stitching.subdomain,
             TriMesh3d_append(negative_side.mesh, positive_side.mesh),
             positive_vertex_offset,
             merge_boundary_data(stitching.subdomain, negative_side.subdomain,
                 negative_side.data[<<stitching_axis, 1>>], positive_side.subdomain,
                 positive_side.data[<<stitching_axis, -1>>], positive_vertex_offset))

(* stitch_meshes: the stitched SurfacePatch, in the record of                  *)
(* triangulate_density_map_with_stitching_data                                 *)
stitch_meshes(stitching_axis, negative_side, positive_side, order, debug) ==
    IF negative_side.subdomain.global_grid # positive_side.subdomain.global_grid
    THEN panicked_patch(
             "The global grid of the two subdomains that should be stitched is not identical!")
    ELSE stitch_meshes_in_domain(stitching_axis, negative_side, positive_side, order, debug,
             compute_stitching_domain(stitching_axis, negative_side.subdomain.global_grid,
                 negative_side.subdomain, positive_side.subdomain),
             Len(negative_side.mesh.vertices))

(***************************************************************************)
(* Octree subdivision (octree.rs)                                          *)
(*                                                                         *)
(*   - a particle position and a grid point coordinate are integer         *)
(*     triples in one length unit; the octree grid is a record of its      *)
(*     cells per dimension and its cell size, with its lower corner at 0;  *)
(*   - an Octant is its discriminant 0..7, an OctantAxisDirections is a    *)
(*     triple of Direction (-1 Negative, 1 Positive), an                   *)
(*     OctantDirectionFlags is the set of its DirectedAxis bits;           *)
(*   - the tree is a function from the path of a node (the octants taken   *)
(*     from the root) to the node; `children` is the length of the         *)
(*     ArrayVec of the node;                                               *)
(*   - a usize is an integer, and a negative integer k stands for          *)
(*     2^64 + k, the value a wrapping subtraction leaves.                  *)
(***************************************************************************)
Octants == 0..7

(* Octant::all *)
ALL_OCTANTS == <<0, 1, 2, 3, 4, 5, 6, 7>>

(* OctantAxisDirections::from_bool *)
OctantAxisDirections_from_bool(x_positive, y_positive, z_positive) ==
    <<IF x_positive THEN 1 ELSE -1, IF y_positive THEN 1 ELSE -1, IF z_positive THEN 1 ELSE -1>>

(* OctantAxisDirections::from_octant *)
OctantAxisDirections_from_octant(octant) ==
    CASE octant = 0 -> OctantAxisDirections_from_bool(FALSE, FALSE, FALSE)
      [] octant = 1 -> OctantAxisDirections_from_bool(TRUE, FALSE, FALSE)
      [] octant = 2 -> OctantAxisDirections_from_bool(FALSE, TRUE, FALSE)
      [] octant = 3 -> OctantAxisDirections_from_bool(TRUE, TRUE, FALSE)
      [] octant = 4 -> OctantAxisDirections_from_bool(FALSE, FALSE, TRUE)
      [] octant = 5 -> OctantAxisDirections_from_bool(TRUE, FALSE, TRUE)
      [] octant = 6 -> OctantAxisDirections_from_bool(FALSE, TRUE, TRUE)
      [] octant = 7 -> OctantAxisDirections_from_bool(TRUE, TRUE, TRUE)

(* Faulty variant of Octant::from_directions: the z axis is taken for the lowest bit *)
Octant_from_directions_z_first(directions) ==
    (IF directions[3] = 1 THEN 1 ELSE 0) + (IF directions[2] = 1 THEN 2 ELSE 0)
        + (IF directions[1] = 1 THEN 4 ELSE 0)

(* Octant::from_directions *)
Octant_from_directions(directions) ==
    CASE directions = <<-1, -1, -1>> -> 0
      [] directions = <<1, -1, -1>> -> 1
      [] directions = <<-1, 1, -1>> -> 2
      [] directions = <<1, 1, -1>> -> 3
      [] directions = <<-1, -1, 1>> -> 4
      [] directions = <<1, -1, 1>> -> 5
      [] directions = <<-1, 1, 1>> -> 6
      [] directions = <<1, 1, 1>> -> 7

X_NEG == <<1, -1>>

X_POS == <<1, 1>>

Y_NEG == <<2, -1>>

Y_POS == <<2, 1>>

Z_NEG == <<3, -1>>

Z_POS == <<3, 1>>

(* OctantDirectionFlags::from_octant *)
OctantDirectionFlags_from_octant(octant) ==
    CASE octant = 0 -> {X_NEG, Y_NEG, Z_NEG}
      [] octant = 1 -> {X_POS, Y_NEG, Z_NEG}
      [] octant = 2 -> {X_NEG, Y_POS, Z_NEG}
      [] octant = 3 -> {X_POS, Y_POS, Z_NEG}
      [] octant = 4 -> {X_NEG, Y_NEG, Z_POS}
      [] octant = 5 -> {X_POS, Y_NEG, Z_POS}
      [] octant = 6 -> {X_NEG, Y_POS, Z_POS}
      [] octant = 7 -> {X_POS, Y_POS, Z_POS}

(* OctantDirectionFlags::all_unique_octants *)
ALL_UNIQUE_OCTANT_DIRECTION_FLAGS ==
    << {X_NEG, Y_NEG, Z_NEG}, {X_POS, Y_NEG, Z_NEG}, {X_NEG, Y_POS, Z_NEG}, {X_POS, Y_POS, Z_NEG},
       {X_NEG, Y_NEG, Z_POS}, {X_POS, Y_NEG, Z_POS}, {X_NEG, Y_POS, Z_POS}, {X_POS, Y_POS, Z_POS} >>

(* bitflags contains: all bits of `other` are set in `flags` *)
flags_contains(flags, other) == other \subseteq flags

(* Faulty variant of classify_with_margin: the comparisons are not strict *)
classify_with_margin_inclusive(point, margin) ==
    {<<a, -1>> : a \in {b \in Axes : point[b] <= margin}}
        \cup {<<a, 1>> : a \in {b \in Axes : point[b] >= 0 - margin}}

(* OctantDirectionFlags::classify_with_margin *)
classify_with_margin(point, margin) ==
    {<<a, -1>> : a \in {b \in Axes : point[b] < margin}}
        \cup {<<a, 1>> : a \in {b \in Axes : point[b] > 0 - margin}}

(* OctantAxisDirections::classify; is_positive of a float is true for +0.0, which is *)
(* what the subtraction of equal coordinates gives                                    *)
classify(point) ==
    OctantAxisDirections_from_bool(point[1] >= 0, point[2] >= 0, point[3] >= 0)

(* OctantAxisDirections::combine_point_index *)
combine_point_index(directions, g, lower, upper) ==
    LET combined_index == [a \in 1..3 |-> IF directions[a] = 1 THEN upper[a] ELSE lower[a]]
    IN  IF point_in_grid(g.cells, combined_index) THEN Some(combined_index) ELSE None

(* Faulty variant of get_split_point: the middle is rounded up *)
get_split_point_rounded_up(g, lower, upper) ==
    LET mid_indices == [a \in 1..3 |-> (lower[a] + upper[a] + 1) \div 2]
    IN  IF point_in_grid(g.cells, mid_indices) THEN Some(mid_indices) ELSE None

get_split_point(g, lower, upper) ==
    LET mid_indices == [a \in 1..3 |-> (lower[a] + upper[a]) \div 2]
    IN  IF point_in_grid(g.cells, mid_indices) THEN Some(mid_indices) ELSE None

(* UniformGrid::point_coordinates *)
point_coordinates(g, p) == [a \in 1..3 |-> p[a] * g.cell_size]

NodeData_None == [kind |-> "None"]

NodeData_ParticleSet(particles, ghost_particle_count) ==
    [kind |-> "ParticleSet", particles |-> particles,
     ghost_particle_count |-> ghost_particle_count]

(* Faulty variant of new_particle_set_node: the node is made without ghost particles *)
new_particle_set_node_without_ghosts(min_corner, max_corner, particles, ghost_particle_count) ==
    [children |-> 0, min_corner |-> min_corner, max_corner |-> max_corner,
     data |-> NodeData_ParticleSet(particles, 0)]

(* OctreeNode::new_particle_set_node *)
new_particle_set_node(min_corner, max_corner, particles, ghost_particle_count) ==
    [children |-> 0, min_corner |-> min_corner, max_corner |-> max_corner,
     data |-> NodeData_ParticleSet(particles, ghost_particle_count)]

(* OctreeNode::new_root *)
new_root(g, n_particles) ==
    new_particle_set_node(<<0, 0, 0>>, g.cells, [i \in 1..n_particles |-> i - 1], 0)

(* a > b of two usize *)
usize_gt(a, b) == IF (a < 0) = (b < 0) THEN a > b ELSE a < 0

(* ParallelPolicy::default (utils.rs), scaled down: the crate has min_task_size 256 and *)
(* tasks_per_thread 8                                                                    *)
ParallelPolicy_default == [min_task_size |-> 2, tasks_per_thread |-> 1]

(* The threads of the pool *)
Threads == {1, 2}

(* ChunkSize::new(parallel_policy, num_items).chunk_size *)
ChunkSize_new(parallel_policy, num_items) ==
    LET num_chunks == parallel_policy.tasks_per_thread * Cardinality(Threads)
    IN  Max2(num_items \div num_chunks, parallel_policy.min_task_size)

(* default_split_criterion: the limit of MaxNonGhostParticleLeafSplitCriterion; the *)
(* minimum extent is I::one()                                                        *)
default_split_criterion(subdivision_criterion, num_particles) ==
    IF subdivision_criterion.kind = "MaxParticleCount"
    THEN subdivision_criterion.count
    ELSE ChunkSize_new(ParallelPolicy_default, num_particles)

(* Faulty variant of MaxNonGhostParticleLeafSplitCriterion::split_leaf: the limit is *)
(* taken one too high                                                                 *)
split_leaf_above_limit_plus_one(max_particles, node) ==
    IF node.data.kind = "ParticleSet"
    THEN usize_gt(Len(node.data.particles) - node.data.ghost_particle_count, max_particles + 1)
    ELSE FALSE

(* MaxNonGhostParticleLeafSplitCriterion::split_leaf *)
MaxNonGhostParticleLeafSplitCriterion_split_leaf(max_particles, node) ==
    IF node.data.kind = "ParticleSet"
    THEN usize_gt(Len(node.data.particles) - node.data.ghost_particle_count, max_particles)
    ELSE FALSE

(* Faulty variant of MinimumExtentSplitCriterion::split_leaf: the minimum extent is *)
(* not doubled                                                                      *)
split_leaf_single_extent(minimum_extent, node) ==
    \A a \in 1..3 : node.max_corner[a] - node.min_corner[a] >= minimum_extent

(* MinimumExtentSplitCriterion::split_leaf *)
MinimumExtentSplitCriterion_split_leaf(minimum_extent, node) ==
    \A a \in 1..3 : node.max_corner[a] - node.min_corner[a] >= minimum_extent + minimum_extent

(* LeafSplitCriterion for (A, B) *)
split_leaf(max_particles, node) ==
    /\ MaxNonGhostParticleLeafSplitCriterion_split_leaf(max_particles, node)
    /\ MinimumExtentSplitCriterion_split_leaf(1, node)

(* The counter arrays before the first particle: ([0; 8], [0; 8]) *)
zeros == [counters |-> [o \in Octants |-> 0], non_ghost_counters |-> [o \in Octants |-> 0]]

(* The body of the classification loop for the particle at position i of `particles`: *)
(* acc is [counters, non_ghost_counters, octant_flags]                                 *)
classify_particle(acc, i, particles, particle_positions, split_coordinates, margin) ==
    LET particle_idx == particles[i]
        relative_pos == vsub(particle_positions[particle_idx + 1], split_coordinates)
        main_octant == Octant_from_directions(classify(relative_pos))
        particle_octant_flags == classify_with_margin(relative_pos, margin)
    IN  [counters |->
             [o \in Octants |->
                 IF flags_contains(particle_octant_flags,
                                   ALL_UNIQUE_OCTANT_DIRECTION_FLAGS[o + 1])
                 THEN acc.counters[o] + 1
                 ELSE acc.counters[o]],
         non_ghost_counters |-> [acc.non_ghost_counters EXCEPT ![main_octant] = @ + 1],
         octant_flags |-> [acc.octant_flags EXCEPT ![i] = particle_octant_flags]]

(* The classification loop over the positions lo..hi of `particles` *)
RECURSIVE classify_particles(_, _, _, _, _, _, _)
classify_particles(acc, lo, hi, particles, particle_positions, split_coordinates, margin) ==
    IF lo > hi THEN acc
    ELSE classify_particles(
             classify_particle(acc, lo, particles, particle_positions, split_coordinates,
                               margin),
             lo + 1, hi, particles, particle_positions, split_coordinates, margin)

(* The construction of the node of one octant (the body of the loop over Octant::all, *)
(* the same in subdivide_with_margin and in subdivide_with_margin_par)                *)
new_octant_child(node, g, split_point, particles, octant_flags, current_octant, octant_particle_count, octant_non_ghost_count, overflow_checks) ==
    LET current_octant_dir == OctantAxisDirections_from_octant(current_octant)
        current_octant_flags == OctantDirectionFlags_from_octant(current_octant)
        min_corner == combine_point_index(current_octant_dir, g, node.min_corner, split_point)
        max_corner == combine_point_index(current_octant_dir, g, split_point, node.max_corner)
        kept == SelectSeq([i \in 1..Len(particles) |-> i],
                          LAMBDA i : flags_contains(octant_flags[i], current_octant_flags))
        octant_particles == [k \in 1..Len(kept) |-> particles[kept[k]]]
    IN  IF is_none(min_corner) \/ is_none(max_corner)
        THEN [node |-> node, panic |-> "Failed to get corner point of octree subcell"]
        ELSE IF Len(octant_particles) # octant_particle_count
        THEN [node |-> node, panic |-> "assertion failed: (left == right)"]
        ELSE IF overflow_checks /\ octant_particle_count < octant_non_ghost_count
        THEN [node |-> node, panic |-> "attempt to subtract with overflow"]
        ELSE [node |-> new_particle_set_node(unwrap(min_corner), unwrap(max_corner),
                          octant_particles, octant_particle_count - octant_non_ghost_count),
              panic |-> ""]

(* The children of all octants, in the order of Octant::all: [children, panic], with *)
(* the panic of the first octant that has one                                         *)
construct_children(node, g, split_point, particles, octant_flags, counters, non_ghost_counters, overflow_checks) ==
    LET child(k) == new_octant_child(node, g, split_point, particles, octant_flags,
                                     ALL_OCTANTS[k], counters[k - 1],
                                     non_ghost_counters[k - 1], overflow_checks)
        made == [k \in 1..8 |-> child(k)]
        failed == {k \in 1..8 : made[k].panic # ""}
    IN  IF failed = {}
        THEN [children |-> [k \in 1..8 |-> made[k].node], panic |-> ""]
        ELSE [children |-> << >>,
              panic |-> made[CHOOSE k \in failed : \A j \in failed : k <= j].panic]

(* OctreeNode::subdivide_with_margin: [node, children, panic]; the node has lost its *)
(* data (NodeData::take) and has 8 children                                            *)
subdivide_with_margin(node, g, particle_positions, margin, overflow_checks) ==
    IF node.data.kind # "ParticleSet"
    THEN [node |-> [node EXCEPT !.data = NodeData_None], children |-> << >>,
          panic |-> "Only nodes with ParticleSet data can be subdivided"]
    ELSE
    LET particles == node.data.particles
        split_point == get_split_point(g, node.min_corner, node.max_corner)
    IN  IF is_none(split_point)
        THEN [node |-> node, children |-> << >>,
              panic |-> "Failed to get split point of octree node"]
        ELSE
        LET split_coordinates == point_coordinates(g, unwrap(split_point))
            classified == classify_particles(
                [counters |-> zeros.counters, non_ghost_counters |-> zeros.non_ghost_counters,
                 octant_flags |-> [i \in 1..Len(particles) |-> {}]],
                1, Len(particles), particles, particle_positions, split_coordinates, margin)
            made == construct_children(node, g, unwrap(split_point), particles,
                        classified.octant_flags, classified.counters,
                        classified.non_ghost_counters, overflow_checks)
        IN  [node |-> [node EXCEPT !.data = NodeData_None,
                                   !.children = IF made.panic = "" THEN 8 ELSE 0],
             children |-> made.children,
             panic |-> made.panic]

(* The chunks of par_chunks(chunk_size) of a slice of length len: chunk c is the *)
(* positions chunk_lo..chunk_hi                                                    *)
num_par_chunks(len, chunk_size) == (len + chunk_size - 1) \div chunk_size

chunk_lo(c, chunk_size) == (c - 1) * chunk_size + 1

chunk_hi(c, len, chunk_size) == IF c * chunk_size < len THEN c * chunk_size ELSE len

(* subdivide_with_margin_par up to the start of the parallel classification: the data *)
(* is taken from the node, nothing is classified, no thread has counters               *)
begin_subdivide_with_margin_par(node, g, parallel_policy) ==
    LET particles == node.data.particles
        chunk_size == ChunkSize_new(parallel_policy, Len(particles))
    IN  [particles |-> particles,
         split_point |-> get_split_point(g, node.min_corner, node.max_corner),
         octant_flags |-> [i \in 1..Len(particles) |-> {}],
         chunk_size |-> chunk_size,
         chunks |-> 1..num_par_chunks(Len(particles), chunk_size),
         tl_counters |-> [t \in Threads |-> None]]

(* The closure of for_each for one chunk, run by `thread`: the thread's counters *)
(* (tl_counters.get_or(zeros_cell)) and the chunk's slice of octant_flags change  *)
classify_chunk(sub, c, thread, g, particle_positions, margin) ==
    LET counters_ref == IF is_some(sub.tl_counters[thread])
                        THEN unwrap(sub.tl_counters[thread]) ELSE zeros
        classified == classify_particles(
            [counters |-> counters_ref.counters,
             non_ghost_counters |-> counters_ref.non_ghost_counters,
             octant_flags |-> sub.octant_flags],
            chunk_lo(c, sub.chunk_size), chunk_hi(c, Len(sub.particles), sub.chunk_size),
            sub.particles, particle_positions,
            point_coordinates(g, unwrap(sub.split_point)), margin)
    IN  [sub EXCEPT !.octant_flags = classified.octant_flags,
                    !.chunks = @ \ {c},
                    !.tl_counters[thread] =
                        Some([counters |-> classified.counters,
                              non_ghost_counters |-> classified.non_ghost_counters])]

(* Faulty variant of sum_thread_local_counters: the fold does not accumulate *)
RECURSIVE last_thread_local_counters(_, _, _)
last_thread_local_counters(acc, tl_counters, threads) ==
    IF threads = << >> THEN acc
    ELSE last_thread_local_counters(
             IF is_some(tl_counters[Head(threads)])
             THEN unwrap(tl_counters[Head(threads)]) ELSE acc,
             tl_counters, Tail(threads))

(* tl_counters.into_iter().fold(zeros(), ...): the sum of the counter arrays of the *)
(* threads that have one, taken in the order `threads`                               *)
RECURSIVE sum_thread_local_counters(_, _, _)
sum_thread_local_counters(acc, tl_counters, threads) ==
    IF threads = << >> THEN acc
    ELSE sum_thread_local_counters(
             IF is_some(tl_counters[Head(threads)])
             THEN LET cell == unwrap(tl_counters[Head(threads)])
                  IN  [counters |-> [i \in Octants |-> acc.counters[i] + cell.counters[i]],
                       non_ghost_counters |->
                           [i \in Octants |->
                               acc.non_ghost_counters[i] + cell.non_ghost_counters[i]]]
             ELSE acc,
             tl_counters, Tail(threads))

(* subdivide_with_margin_par after the parallel classification: the fold of the *)
(* thread-local counters and the construction of the children                    *)
finish_subdivide_with_margin_par(node, sub, g, threads, overflow_checks) ==
    LET summed == sum_thread_local_counters(zeros, sub.tl_counters, threads)
        made == construct_children(node, g, unwrap(sub.split_point), sub.particles,
                    sub.octant_flags, summed.counters, summed.non_ghost_counters,
                    overflow_checks)
    IN  [node |-> [node EXCEPT !.data = NodeData_None,
                               !.children = IF made.panic = "" THEN 8 ELSE 0],
         children |-> made.children,
         panic |-> made.panic]

(* The tree after the node at `path` got the children of a subdivision *)
with_children(t, path, r) ==
    [p \in DOMAIN t \cup {path \o <<o>> : o \in {k \in Octants : r.panic = ""}} |->
        IF p = path THEN r.node
        ELSE IF p \in DOMAIN t THEN t[p]
        ELSE r.children[p[Len(p)] + 1]]

children_paths(path) == [k \in 1..8 |-> path \o <<k - 1>>]

(* The visitor of subdivide_recursively_margin on the node at `path`: *)
(* [tree, children, panic], children being the paths of the new nodes  *)
visit_subdivide(t, path, g, particle_positions, max_particles, margin, overflow_checks) ==
    IF ~split_leaf(max_particles, t[path])
    THEN [tree |-> t, children |-> << >>, panic |-> ""]
    ELSE LET r == subdivide_with_margin(t[path], g, particle_positions, margin,
                                        overflow_checks)
         IN  [tree |-> with_children(t, path, r),
              children |-> IF r.panic = "" THEN children_paths(path) ELSE << >>,
              panic |-> r.panic]

(* visit_mut_bfs (generic_tree.rs) with the visitor of subdivide_recursively_margin: *)
(* the head of the queue is visited, then its children are queued                    *)
RECURSIVE visit_mut_bfs(_, _, _, _, _, _, _)
visit_mut_bfs(t, queue, g, particle_positions, max_particles, margin, overflow_checks) ==
    IF queue = << >> THEN [tree |-> t, panic |-> ""]
    ELSE LET r == visit_subdivide(t, Head(queue), g, particle_positions, max_particles,
                                  margin, overflow_checks)
         IN  IF r.panic # "" THEN [tree |-> r.tree, panic |-> r.panic]
             ELSE visit_mut_bfs(r.tree, Tail(queue) \o r.children, g, particle_positions,
                                max_particles, margin, overflow_checks)

(* Octree::subdivide_recursively_margin on a new tree: [tree, panic] *)
subdivide_recursively_margin(g, particle_positions, subdivision_criterion, margin, overflow_checks) ==
    visit_mut_bfs([p \in {<< >>} |-> new_root(g, Len(particle_positions))], << << >> >>,
                  g, particle_positions,
                  default_split_criterion(subdivision_criterion, Len(particle_positions)),
                  margin, overflow_checks)

(***************************************************************************)
(* Stitching of the surface patches of the children of a node (octree.rs)  *)
(*                                                                         *)
(*   - NodeData::SurfacePatch is [kind |-> "SurfacePatch", patch |-> p];   *)
(*   - the children map is a function from OctantAxisDirections to         *)
(*     SurfacePatch, together with the message of a panic.                 *)
(***************************************************************************)
(* OctantAxisDirections::all *)
ALL_OCTANT_DIRECTIONS == [k \in 1..8 |-> OctantAxisDirections_from_octant(ALL_OCTANTS[k])]

NodeData_SurfacePatch(patch) == [kind |-> "SurfacePatch", patch |-> patch]

(* NodeData::into_surface_patch *)
into_surface_patch(data) == IF data.kind = "SurfacePatch" THEN Some(data.patch) ELSE None

(* MapType::remove *)
map_remove(m, k) == [x \in (DOMAIN m) \ {k} |-> m[x]]

(* Faulty variant of insert_stitched_patch: the stitched patch is not put back *)
drop_stitched_patch(cm, octant, stitched_patch) ==
    [map |-> cm.map, panic |-> stitched_patch.panic]

(* stitch_children_orthogonal_to: children_map.insert(octant, stitched_patch), or *)
(* the panic of stitch_meshes                                                     *)
insert_stitched_patch(cm, octant, stitched_patch) ==
    IF stitched_patch.panic # "" THEN [map |-> cm.map, panic |-> stitched_patch.panic]
    ELSE [map |-> map_insert(cm.map, octant, stitched_patch), panic |-> ""]

(* Faulty variant of stitch_octant_pair: the stitched patch is put back under the *)
(* key of the negative octant                                                     *)
stitch_octant_pair_under_negative_key(cm, octant, stitching_axis, order, debug) ==
    IF octant[stitching_axis] = 1 THEN cm
    ELSE IF octant \notin DOMAIN cm.map THEN cm
    ELSE IF [octant EXCEPT ![stitching_axis] = 1] \notin DOMAIN cm.map
    THEN [map |-> map_remove(cm.map, octant), panic |-> "Child node missing!"]
    ELSE insert_stitched_patch(
             [map |-> map_remove(map_remove(cm.map, octant),
                                 [octant EXCEPT ![stitching_axis] = 1]),
              panic |-> ""],
             octant,
             stitch_meshes(stitching_axis, cm.map[octant],
                           cm.map[[octant EXCEPT ![stitching_axis] = 1]], order, debug))

(* The body of the loop of stitch_children_orthogonal_to for one octant *)
stitch_octant_pair(cm, octant, stitching_axis, order, debug) ==
    IF octant[stitching_axis] = 1 THEN cm
    ELSE IF octant \notin DOMAIN cm.map THEN cm
    ELSE IF [octant EXCEPT ![stitching_axis] = 1] \notin DOMAIN cm.map
    THEN [map |-> map_remove(cm.map, octant), panic |-> "Child node missing!"]
    ELSE insert_stitched_patch(
             [map |-> map_remove(map_remove(cm.map, octant),
                                 [octant EXCEPT ![stitching_axis] = 1]),
              panic |-> ""],
             [octant EXCEPT ![stitching_axis] = 1],
             stitch_meshes(stitching_axis, cm.map[octant],
                           cm.map[[octant EXCEPT ![stitching_axis] = 1]], order, debug))

(* The loop of stitch_children_orthogonal_to from the k-th octant on *)
RECURSIVE stitch_children_from(_, _, _, _, _)
stitch_children_from(cm, k, stitching_axis, order, debug) ==
    IF k > 8 \/ cm.panic # "" THEN cm
    ELSE stitch_children_from(
             stitch_octant_pair(cm, ALL_OCTANT_DIRECTIONS[k], stitching_axis, order, debug),
             k + 1, stitching_axis, order, debug)

(* OctreeNode::stitch_children_orthogonal_to: [map, panic] *)
stitch_children_orthogonal_to(children_map, stitching_axis, order, debug) ==
    stitch_children_from([map |-> children_map, panic |-> ""], 1, stitching_axis, order, debug)

(* stitch_surface_patches up to the first pass: the early returns, and the children *)
(* taken out of the node into the children map: [tree, children_map, returned,      *)
(* panic]                                                                           *)
take_children_into_map(t, path) ==
    IF t[path].children = 0
    THEN [tree |-> t, children_map |-> new_map, returned |-> TRUE, panic |-> ""]
    ELSE IF \E k \in 1..t[path].children : t[children_paths(path)[k]].children # 0
    THEN [tree |-> t, children_map |-> new_map, returned |-> TRUE, panic |-> ""]
    ELSE LET taken == [p \in {q \in DOMAIN t : ~(Len(q) > Len(path)
                                                   /\ SubSeq(q, 1, Len(path)) = path)}
                          |-> IF p = path THEN [t[p] EXCEPT !.children = 0] ELSE t[p]]
             missing == \E k \in 1..t[path].children :
                            is_none(into_surface_patch(t[children_paths(path)[k]].data))
         IN  IF missing
             THEN [tree |-> taken, children_map |-> new_map, returned |-> FALSE,
                   panic |-> "Surface patch missing!"]
             ELSE [tree |-> taken,
                   children_map |->
                       [d \in {OctantAxisDirections_from_octant(ALL_OCTANTS[k]) :
                                   k \in 1..t[path].children} |->
                           unwrap(into_surface_patch(
                               t[path \o <<Octant_from_directions(d)>>].data))],
                   returned |-> FALSE, panic |-> ""]

(* Faulty variant of store_stitched_patch: the stitching level is left as it is *)
store_stitched_patch_same_level(t, path, children_map) ==
    IF Cardinality(DOMAIN children_map) # 1
    THEN [tree |-> t, panic |-> "After stitching, there should be only one child left."]
    ELSE [tree |-> [t EXCEPT ![path].data =
                       NodeData_SurfacePatch(
                           children_map[CHOOSE d \in DOMAIN children_map : TRUE])],
          panic |-> ""]

(* stitch_surface_patches after the three passes: the patch that is left becomes *)
(* the payload of the node, with its stitching level raised by one: [tree, panic] *)
store_stitched_patch(t, path, children_map) ==
    IF Cardinality(DOMAIN children_map) # 1
    THEN [tree |-> t, panic |-> "After stitching, there should be only one child left."]
    ELSE LET stitched_patch == children_map[CHOOSE d \in DOMAIN children_map : TRUE]
         IN  IF t[path].children # 0
             THEN [tree |-> t,
                   panic |-> "After stitching, the node should not have any children."]
             ELSE [tree |-> [t EXCEPT ![path].data =
                                NodeData_SurfacePatch(
                                    [stitched_patch EXCEPT !.stitching_level = @ + 1])],
                   panic |-> ""]

(***************************************************************************)
(* State                                                                   *)
(***************************************************************************)
VARIABLES
    pc,                  \* position of the caller: "call", "returned" or "panicked"
    grid,                \* the global grid (cells per dimension)
    subdomain_offset,    \* Option<PointIndex> given to triangulate_density_map_append
    subdomain_grid,      \* Option<UniformGrid> given to triangulate_density_map_append
    density_map,         \* the density map given to the call
    iter_order,          \* the order in which maps are iterated in this run
    debug_assertions,    \* whether the build has debug assertions
    mesh,                \* the TriMesh3d: [vertices, triangles]
    marching_cubes_data, \* the cell data map of the MarchingCubesInput built by the call
    triangle_cells,      \* for each triangle pushed by the call, the flat index of its cell
    panic,               \* the message of the panic that ended the call, or ""
    stitching_axis,      \* the axis along which the two leaves meet
    leaf_density_map,    \* the density maps of the negative (-1) and the positive (1) leaf
    patches,             \* Option<SurfacePatch> of the negative (-1) and the positive (1) leaf
    stitched,            \* Option<SurfacePatch>: the result of stitch_meshes
    octree_grid,            \* the grid given to Octree::new_subdivided
    particle_positions,     \* the particle positions given to Octree::new_subdivided
    subdivision_criterion,  \* the SubdivisionCriterion given to Octree::new_subdivided
    margin,                 \* the margin given to Octree::new_subdivided
    enable_multi_threading, \* the flag given to Octree::new_subdivided
    octree_pc,              \* position of the caller of Octree::new_subdivided
    tree,                   \* the octree: the node at each path
    bfs_queue,              \* the queue of visit_mut_bfs: paths of the nodes to visit
    par_tasks,              \* par_visit_mut_bfs: paths of the nodes whose visit is pending
    subdividing,            \* the nodes inside subdivide_with_margin_par: path -> locals
    octree_panic,           \* the message of the panic that ended the subdivision, or ""
    children_map,           \* stitch_surface_patches: the map of the patches of the children
    merge_input,            \* the arguments given to merge_boundary_data
    result_boundary_data    \* Option<BoundaryData>: the result of merge_boundary_data

mc_vars == <<pc, grid, subdomain_offset, subdomain_grid, density_map, iter_order,
             debug_assertions, mesh, marching_cubes_data, triangle_cells, panic>>

merge_vars == <<merge_input, result_boundary_data>>

stitch_vars == <<stitching_axis, leaf_density_map, patches, stitched, merge_vars>>

octree_args == <<octree_grid, particle_positions, subdivision_criterion, margin,
                 enable_multi_threading>>

octree_vars == <<octree_args, octree_pc, tree, bfs_queue, par_tasks, subdividing, octree_panic,
                 children_map>>

vars == <<mc_vars, stitch_vars, octree_vars>>

(***************************************************************************)
(* Inputs                                                                  *)
(***************************************************************************)
MaxAbove == 2

MaxAbsent == 1

(* Values not above the threshold (below it and equal to it) and values above it *)
LowValue(p) == (p[1] + p[2] + p[3]) % 2

HighValue(p) == 2 + (p[1] % 2)

BoundedSubsets(W, k) == {A \in SUBSET W : Cardinality(A) <= k}

(* The map on grid g with the points of P \ M present, those in A above the threshold *)
density_map_of(g, P, A, M) ==
    [f \in {flatten_point_index(g, p) : p \in P \ M} |->
        LET p == unwrap(try_unflatten_point_index(g, f))
        IN  IF p \in A THEN HighValue(p) ELSE LowValue(p)]

(* A ranges over the subsets of WA with at most ka points, M over those of WM with at most km *)
DensityMapsOf(g, P, WA, WM, ka, km) ==
    {density_map_of(g, P, A, M) : A \in BoundedSubsets(WA, ka), M \in BoundedSubsets(WM, km)}

PointBox(lo, hi) == (lo[1]..hi[1]) \X (lo[2]..hi[2]) \X (lo[3]..hi[3])

EmptyMesh == [vertices |-> << >>, triangles |-> << >>]

PriorVertex(i) == [p |-> <<0, 0, 0>>, q |-> <<0, 0, i>>, vp |-> 0 - i, vq |-> 2 + i]

PriorMesh == [vertices |-> <<PriorVertex(1), PriorVertex(2), PriorVertex(3)>>,
              triangles |-> << <<0, 1, 2>> >>]

UnitGrid == <<1, 1, 1>>

FlatGrid == <<2, 2, 1>>

FlatWindow == {<<1, 1, 0>>, <<1, 1, 1>>, <<1, 0, 0>>, <<1, 0, 1>>, <<0, 1, 0>>, <<2, 1, 1>>}

PatchGrid == <<3, 3, 3>>

PatchWindow == {<<1, 1, 1>>, <<2, 1, 1>>, <<2, 2, 1>>, <<0, 1, 1>>, <<3, 2, 2>>, <<1, 1, 0>>}

ThinGrid == <<2, 3, 3>>

FlatAbsentWindow == {<<1, 1, 0>>, <<1, 0, 1>>, <<0, 1, 1>>, <<2, 2, 0>>}

PatchAbsentWindow == {<<1, 1, 1>>, <<2, 2, 1>>, <<0, 1, 1>>, <<2, 1, 2>>}

(* The density maps of the model per grid: every point present or only those of a box *)
UnitMaps ==
    DensityMapsOf(UnitGrid, PointsOf(UnitGrid), PointsOf(UnitGrid),
                  {<<0, 0, 0>>, <<1, 1, 0>>}, 8, MaxAbsent)
        \cup {new_map}

FlatMaps ==
    DensityMapsOf(FlatGrid, PointsOf(FlatGrid), FlatWindow, FlatAbsentWindow,
                  MaxAbove, MaxAbsent)
        \cup DensityMapsOf(FlatGrid, PointBox(<<0, 0, 0>>, <<2, 1, 1>>), FlatWindow,
                           FlatAbsentWindow, MaxAbove, MaxAbsent)
        \cup {new_map}

PatchMaps ==
    DensityMapsOf(PatchGrid, PointsOf(PatchGrid), PatchWindow, PatchAbsentWindow,
                  MaxAbove, MaxAbsent)
        \cup DensityMapsOf(PatchGrid, PointBox(<<0, 0, 0>>, <<2, 2, 2>>), PatchWindow,
                           PatchAbsentWindow, MaxAbove, MaxAbsent)
        \cup {new_map}

(* The calls of the model: grid, subdomain and density map *)
Calls ==
    {[grid |-> UnitGrid, subdomain_offset |-> None, subdomain_grid |-> None, density_map |-> dm] :
        dm \in UnitMaps}
    \cup
    {[grid |-> FlatGrid, subdomain_offset |-> None, subdomain_grid |-> None, density_map |-> dm] :
        dm \in FlatMaps}
    \cup
    {[grid |-> <<4, 3, 3>>, subdomain_offset |-> Some(<<1, 0, 0>>),
      subdomain_grid |-> Some(PatchGrid), density_map |-> dm] : dm \in PatchMaps}
    \cup
    {[grid |-> <<4, 3, 3>>, subdomain_offset |-> Some(<<1, 0, 0>>),
      subdomain_grid |-> Some(ThinGrid), density_map |-> dm] :
        dm \in DensityMapsOf(ThinGrid, PointsOf(ThinGrid), {<<1, 1, 1>>}, {}, 1, 0)}
    \cup
    {[grid |-> FlatGrid, subdomain_offset |-> None, subdomain_grid |-> Some(FlatGrid),
      density_map |-> dm] :
        dm \in DensityMapsOf(FlatGrid, PointsOf(FlatGrid), {<<1, 1, 1>>}, {}, 1, 0)}

(* merge_boundary_data is not called on its own *)
NoMerge ==
    /\ merge_input = None
    /\ result_boundary_data = None

(* No octree is built *)
NoOctree ==
    /\ octree_grid = [cells |-> <<1, 1, 1>>, cell_size |-> 1]
    /\ particle_positions = << >>
    /\ subdivision_criterion = [kind |-> "MaxParticleCountAuto"]
    /\ margin = 0
    /\ enable_multi_threading = FALSE
    /\ octree_pc = "idle"
    /\ tree = [p \in {} |-> 0]
    /\ bfs_queue = << >>
    /\ par_tasks = {}
    /\ subdividing = [p \in {} |-> 0]
    /\ octree_panic = ""
    /\ children_map = new_map

Init ==
    /\ pc = "call"
    /\ \E c \in Calls :
        /\ grid = c.grid
        /\ subdomain_offset = c.subdomain_offset
        /\ subdomain_grid = c.subdomain_grid
        /\ density_map = c.density_map
    /\ iter_order \in IterOrders
    /\ debug_assertions \in BOOLEAN
    /\ mesh \in {EmptyMesh, PriorMesh}
    /\ marching_cubes_data = new_map
    /\ triangle_cells = << >>
    /\ panic = ""
    /\ stitching_axis = 1
    /\ leaf_density_map = [d \in {-1, 1} |-> new_map]
    /\ patches = [d \in {-1, 1} |-> None]
    /\ stitched = None
    /\ NoMerge
    /\ NoOctree

(* A call of triangulate_density_map_append(grid, subdomain_offset, subdomain_grid, ...) *)
TriangulateDensityMapAppend ==
    /\ pc = "call"
    /\ \E r \in {triangulate_density_map_append(grid, subdomain_offset, subdomain_grid,
                     density_map, iter_order, debug_assertions, mesh)} :
        /\ mesh' = r.mesh
        /\ marching_cubes_data' = r.marching_cubes_data
        /\ triangle_cells' = r.triangle_cells
        /\ panic' = r.panic
        /\ pc' = IF r.panic = "" THEN "returned" ELSE "panicked"
    /\ UNCHANGED <<grid, subdomain_offset, subdomain_grid, density_map, iter_order,
                   debug_assertions>>
    /\ UNCHANGED <<stitch_vars, octree_vars>>

(* A call of triangulate_density_map(grid, density_map, threshold): a fresh mesh *)
TriangulateDensityMap ==
    /\ pc = "call"
    /\ subdomain_offset = None
    /\ subdomain_grid = None
    /\ mesh = EmptyMesh
    /\ \E r \in {triangulate_density_map_append(grid, None, None, density_map, iter_order,
                     debug_assertions, EmptyMesh)} :
        /\ mesh' = r.mesh
        /\ marching_cubes_data' = r.marching_cubes_data
        /\ triangle_cells' = r.triangle_cells
        /\ panic' = r.panic
        /\ pc' = IF r.panic = "" THEN "returned" ELSE "panicked"
    /\ UNCHANGED <<grid, subdomain_offset, subdomain_grid, density_map, iter_order,
                   debug_assertions>>
    /\ UNCHANGED <<stitch_vars, octree_vars>>

Next == TriangulateDensityMapAppend \/ TriangulateDensityMap

Spec == Init /\ [][Next]_vars

(***************************************************************************)
(* Two leaves that meet along the stitching axis: each is meshed with      *)
(* triangulate_density_map_with_stitching_data, the two patches are        *)
(* stitched with stitch_meshes; triangulate_density_map meshes the union   *)
(***************************************************************************)
(* The point with coordinate t along axis and (u, v) on the two orthogonal axes *)
place(axis, t, u, v) ==
    CASE axis = 1 -> <<t, u, v>>
      [] axis = 2 -> <<u, t, v>>
      [] OTHER -> <<u, v, t>>

UnionGrid(axis) == [PatchGrid EXCEPT ![axis] = 2 * PatchGrid[axis]]

LeafOffset(axis, d) == IF d < 0 THEN <<0, 0, 0>> ELSE place(axis, PatchGrid[axis], 0, 0)

StitchingAxes == {1}

SeamWindow(axis) ==
    {place(axis, 2, 1, 1), place(axis, 3, 1, 1), place(axis, 4, 1, 1),
     place(axis, 3, 0, 1), place(axis, 5, 1, 1)}

SeamAbsentWindow(axis) == {place(axis, 3, 1, 1), place(axis, 3, 2, 2)}

UnionMaps(axis) ==
    DensityMapsOf(UnionGrid(axis), PointsOf(UnionGrid(axis)), SeamWindow(axis),
                  SeamAbsentWindow(axis), MaxAbove, MaxAbsent)

(* The part of a density map of the global grid that lies in a subdomain, in its indices *)
restrict_density_map(g, dm, sub_offset, sub_grid) ==
    [f \in {flatten_point_index(sub_grid, p) :
                p \in {p \in PointsOf(sub_grid) :
                           flatten_point_index(g, vadd(p, sub_offset)) \in DOMAIN dm}} |->
        dm[flatten_point_index(g, vadd(unwrap(try_unflatten_point_index(sub_grid, f)),
                                       sub_offset))]]

(* The leaves see the density map of the union, or one of them has no density at all *)
LeafMapsOf(axis, dm) ==
    LET of(d) == restrict_density_map(UnionGrid(axis), dm, LeafOffset(axis, d), PatchGrid)
    IN  {[d \in {-1, 1} |-> of(d)],
         [d \in {-1, 1} |-> IF d < 0 THEN of(d) ELSE new_map],
         [d \in {-1, 1} |-> IF d < 0 THEN new_map ELSE of(d)]}

StitchInit ==
    /\ pc = "call"
    /\ stitching_axis \in StitchingAxes
    /\ grid = UnionGrid(stitching_axis)
    /\ subdomain_offset = None
    /\ subdomain_grid = None
    /\ density_map \in UnionMaps(stitching_axis)
    /\ iter_order \in IterOrders
    /\ debug_assertions \in BOOLEAN
    /\ mesh = EmptyMesh
    /\ marching_cubes_data = new_map
    /\ triangle_cells = << >>
    /\ panic = ""
    /\ leaf_density_map \in LeafMapsOf(stitching_axis, density_map)
    /\ patches = [d \in {-1, 1} |-> None]
    /\ stitched = None
    /\ NoMerge
    /\ NoOctree

(* A leaf is meshed: triangulate_density_map_with_stitching_data *)
TriangulateLeaf(d) ==
    /\ pc # "call"
    /\ patches[d] = None
    /\ \E r \in {triangulate_density_map_with_stitching_data(grid,
                     LeafOffset(stitching_axis, d), PatchGrid, leaf_density_map[d], iter_order)} :
           patches' = [patches EXCEPT ![d] = Some(r)]
    /\ UNCHANGED <<mc_vars, stitching_axis, leaf_density_map, stitched, merge_vars, octree_vars>>

(* The two patches are stitched: stitch_meshes *)
StitchMeshes ==
    /\ stitched = None
    /\ \A d \in {-1, 1} : is_some(patches[d]) /\ unwrap(patches[d]).panic = ""
    /\ \E r \in {stitch_meshes(stitching_axis, unwrap(patches[-1]), unwrap(patches[1]),
                                iter_order, debug_assertions)} :
           stitched' = Some(r)
    /\ UNCHANGED <<mc_vars, stitching_axis, leaf_density_map, patches, merge_vars, octree_vars>>

StitchNext ==
    \/ TriangulateDensityMap
    \/ \E d \in {-1, 1} : TriangulateLeaf(d)
    \/ StitchMeshes

SpecStitch == StitchInit /\ [][StitchNext]_vars

(***************************************************************************)
(* merge_boundary_data on the boundary data of two subdomains of a row of  *)
(* four cells: the negative one holds the points 0..2, the positive one    *)
(* the points 2..4 and the target the points 1..3 along X                  *)
(***************************************************************************)
MergeGlobalGrid == <<4, 1, 1>>

MergeNegativeSubdomain == SubdomainGrid_new(MergeGlobalGrid, <<2, 1, 1>>, <<0, 0, 0>>)

MergePositiveSubdomain == SubdomainGrid_new(MergeGlobalGrid, <<2, 1, 1>>, <<2, 0, 0>>)

MergeTargetSubdomain == SubdomainGrid_new(MergeGlobalGrid, <<2, 1, 1>>, <<1, 0, 0>>)

(* The points of a side that can hold a density: outside of the target, in the target *)
(* only, and shared with the other side                                               *)
MergePoints == {<<0, 0, 0>>, <<1, 0, 0>>, <<2, 0, 0>>}

MergeNegativeValues == {0, 2}

MergePositiveValues == {2, 4}

(* The density maps of a subdomain grid on subsets of the points with the values *)
BoundaryDensityMapsOf(g, points, values) ==
    UNION {[{flatten_point_index(g, p) : p \in P} -> values] : P \in SUBSET points}

MergeInputs ==
    {[target_subdomain |-> MergeTargetSubdomain,
      negative_subdomain |-> MergeNegativeSubdomain,
      negative_data |-> [BoundaryData_default EXCEPT !.boundary_density_map = n],
      positive_subdomain |-> MergePositiveSubdomain,
      positive_data |-> [BoundaryData_default EXCEPT !.boundary_density_map = p],
      positive_vertex_offset |-> 0] :
        n \in BoundaryDensityMapsOf(MergeNegativeSubdomain.subdomain_grid, MergePoints,
                                    MergeNegativeValues),
        p \in BoundaryDensityMapsOf(MergePositiveSubdomain.subdomain_grid, MergePoints,
                                    MergePositiveValues)}

(* A positive subdomain that overlaps the negative one in the cell 1 *)
MergeOverlappingSubdomain == SubdomainGrid_new(MergeGlobalGrid, <<2, 1, 1>>, <<1, 0, 0>>)

(* The cell data of a boundary cell with a vertex on each of two edges *)
MergeCellData(first_vertex) ==
    [iso_surface_vertices |->
         [e \in LocalEdges |-> IF e = 0 THEN Some(first_vertex)
                               ELSE IF e = 4 THEN Some(first_vertex + 1) ELSE None],
     corner_above_threshold |->
         [c \in LocalPoints |-> IF c = 0 THEN "Above" ELSE "Below"]]

MergeVertexOffsets == {0, 3}

(* Calls with cell data on subsets of the two cells of each side *)
MergeCellInputs ==
    {[target_subdomain |-> MergeTargetSubdomain,
      negative_subdomain |-> MergeNegativeSubdomain,
      negative_data |-> [BoundaryData_default EXCEPT
                             !.boundary_cell_data = [f \in n |-> MergeCellData(f)]],
      positive_subdomain |-> ps,
      positive_data |-> [BoundaryData_default EXCEPT
                             !.boundary_cell_data = [f \in p |-> MergeCellData(2 * f)]],
      positive_vertex_offset |-> off] :
        n \in SUBSET {0, 1}, p \in SUBSET {0, 1},
        ps \in {MergePositiveSubdomain, MergeOverlappingSubdomain},
        off \in MergeVertexOffsets}

MergeInit ==
    /\ pc = "idle"
    /\ grid = <<1, 1, 1>>
    /\ subdomain_offset = None
    /\ subdomain_grid = None
    /\ density_map = new_map
    /\ iter_order = "ascending"
    /\ debug_assertions = FALSE
    /\ mesh = EmptyMesh
    /\ marching_cubes_data = new_map
    /\ triangle_cells = << >>
    /\ panic = ""
    /\ stitching_axis = 1
    /\ leaf_density_map = [d \in {-1, 1} |-> new_map]
    /\ patches = [d \in {-1, 1} |-> None]
    /\ stitched = None
    /\ \E i \in MergeInputs \cup MergeCellInputs : merge_input = Some(i)
    /\ result_boundary_data = None
    /\ NoOctree

(* merge_boundary_data is called with the arguments *)
MergeBoundaryData ==
    /\ is_some(merge_input)
    /\ result_boundary_data = None
    /\ \E i \in {unwrap(merge_input)} :
           result_boundary_data' =
               Some(merge_boundary_data(i.target_subdomain, i.negative_subdomain,
                        i.negative_data, i.positive_subdomain, i.positive_data,
                        i.positive_vertex_offset))
    /\ UNCHANGED <<mc_vars, stitching_axis, leaf_density_map, patches, stitched, merge_input,
                   octree_vars>>

MergeNext == MergeBoundaryData

SpecMerge == MergeInit /\ [][MergeNext]_vars

(***************************************************************************)
(* Octree::new_subdivided, sequential and parallel                         *)
(***************************************************************************)
MaxParticles == 4

OctreeGrids == {[cells |-> <<4, 4, 4>>, cell_size |-> 2], [cells |-> <<3, 3, 3>>, cell_size |-> 2]}

(* Positions below, on and above the split planes of the root and of its children, *)
(* and one outside of the smaller grid                                              *)
ParticlePool == << <<1, 1, 1>>, <<3, 3, 3>>, <<4, 4, 4>>, <<5, 3, 3>>, <<3, 5, 4>>, <<7, 7, 7>>, <<3, 2, 3>> >>

ParticleSelections == {S \in SUBSET (1..Len(ParticlePool)) : Cardinality(S) <= MaxParticles}

ParticlePositionsOf(S) == LET picked == SortedSeq(S) IN [i \in 1..Len(picked) |-> ParticlePool[picked[i]]]

SubdivisionCriteria == {[kind |-> "MaxParticleCount", count |-> 1], [kind |-> "MaxParticleCountAuto"]}

Margins == {-1, 0, 1, 3}

(* The orders in which the thread-local counters can come out of the ThreadLocal *)
ThreadOrders == {<<1, 2>>, <<2, 1>>}

OctreeInit ==
    /\ pc = "idle"
    /\ grid = <<1, 1, 1>>
    /\ subdomain_offset = None
    /\ subdomain_grid = None
    /\ density_map = new_map
    /\ iter_order = "ascending"
    /\ debug_assertions \in BOOLEAN
    /\ mesh = EmptyMesh
    /\ marching_cubes_data = new_map
    /\ triangle_cells = << >>
    /\ panic = ""
    /\ stitching_axis = 1
    /\ leaf_density_map = [d \in {-1, 1} |-> new_map]
    /\ patches = [d \in {-1, 1} |-> None]
    /\ stitched = None
    /\ NoMerge
    /\ octree_grid \in OctreeGrids
    /\ \E S \in ParticleSelections : particle_positions = ParticlePositionsOf(S)
    /\ subdivision_criterion \in SubdivisionCriteria
    /\ margin \in Margins
    /\ enable_multi_threading \in BOOLEAN
    /\ octree_pc = "call"
    /\ tree = [p \in {} |-> 0]
    /\ bfs_queue = << >>
    /\ par_tasks = {}
    /\ subdividing = [p \in {} |-> 0]
    /\ octree_panic = ""
    /\ children_map = new_map

max_particles_of_call == default_split_criterion(subdivision_criterion, Len(particle_positions))

(* Where the caller is after a step that left panic message msg, the queue and the *)
(* parallel work given                                                              *)
octree_pc_after(msg, queue, tasks, inside) ==
    IF msg # "" THEN "panicked"
    ELSE IF queue = << >> /\ tasks = {} /\ inside = {} THEN "returned"
    ELSE "subdividing"

(* par_visit_mut_bfs (generic_tree.rs): the visits that become pending when the nodes *)
(* at `paths` are created. The visitor on a node that the criterion does not split    *)
(* reads that node and changes nothing, so this visit is taken together with the step *)
(* that created the node.                                                             *)
pending_visits(t, paths) == {p \in paths : split_leaf(max_particles_of_call, t[p])}

(* Octree::new_subdivided up to the start of the traversal: Octree::new *)
NewSubdivided ==
    /\ octree_pc = "call"
    /\ tree' = [p \in {<< >>} |-> new_root(octree_grid, Len(particle_positions))]
    /\ bfs_queue' = IF enable_multi_threading THEN << >> ELSE << << >> >>
    /\ par_tasks' = IF enable_multi_threading THEN {<< >>} ELSE {}
    /\ octree_pc' = "subdividing"
    /\ UNCHANGED <<mc_vars, stitch_vars, octree_args, children_map, subdividing, octree_panic>>

(* subdivide_recursively_margin: visit_mut_bfs visits the next node of its queue *)
VisitMutBfs ==
    /\ octree_pc = "subdividing"
    /\ ~enable_multi_threading
    /\ bfs_queue # << >>
    /\ \E r \in {visit_subdivide(tree, Head(bfs_queue), octree_grid, particle_positions,
                                 max_particles_of_call, margin, debug_assertions)} :
        /\ tree' = r.tree
        /\ bfs_queue' = Tail(bfs_queue) \o r.children
        /\ octree_panic' = r.panic
        /\ octree_pc' = octree_pc_after(r.panic, Tail(bfs_queue) \o r.children, {}, {})
    /\ UNCHANGED <<mc_vars, stitch_vars, octree_args, children_map, par_tasks, subdividing>>

(* subdivide_recursively_margin_par: a thread of the pool runs the visitor on a node *)
(* whose visit is pending; a node with at least min_task_size particles enters        *)
(* subdivide_with_margin_par                                                          *)
ParVisit(path) ==
    /\ octree_pc = "subdividing"
    /\ enable_multi_threading
    /\ path \in par_tasks
    /\ IF /\ split_leaf(max_particles_of_call, tree[path])
          /\ Len(tree[path].data.particles) >= ParallelPolicy_default.min_task_size
       THEN \E sub \in {begin_subdivide_with_margin_par(tree[path], octree_grid,
                                                        ParallelPolicy_default)} :
            \E msg \in {IF is_none(sub.split_point)
                        THEN "Failed to get split point of octree node" ELSE ""} :
                /\ tree' = [tree EXCEPT ![path].data = NodeData_None]
                /\ subdividing' = [p \in DOMAIN subdividing \cup {path} |->
                                      IF p = path THEN sub ELSE subdividing[p]]
                /\ par_tasks' = par_tasks \ {path}
                /\ octree_panic' = msg
                /\ octree_pc' = octree_pc_after(msg, << >>, par_tasks \ {path},
                                                DOMAIN subdividing \cup {path})
       ELSE \E r \in {visit_subdivide(tree, path, octree_grid, particle_positions,
                                      max_particles_of_call, margin, debug_assertions)} :
                /\ tree' = r.tree
                /\ par_tasks' = (par_tasks \ {path}) \cup pending_visits(r.tree, Range(r.children))
                /\ octree_panic' = r.panic
                /\ octree_pc' = octree_pc_after(r.panic, << >>,
                                    (par_tasks \ {path})
                                        \cup pending_visits(r.tree, Range(r.children)),
                                    DOMAIN subdividing)
                /\ UNCHANGED subdividing
    /\ UNCHANGED <<mc_vars, stitch_vars, octree_args, children_map, bfs_queue>>

(* subdivide_with_margin_par: a thread of the pool classifies one chunk *)
ParClassifyChunk(path, c, thread) ==
    /\ octree_pc = "subdividing"
    /\ path \in DOMAIN subdividing
    /\ c \in subdividing[path].chunks
    /\ subdividing' = [subdividing EXCEPT ![path] =
                           classify_chunk(@, c, thread, octree_grid, particle_positions,
                                          margin)]
    /\ UNCHANGED <<mc_vars, stitch_vars, octree_args, children_map, octree_pc, tree, bfs_queue, par_tasks,
                   octree_panic>>

(* subdivide_with_margin_par: all chunks are classified; the counters are summed, the *)
(* children are constructed and their visits become pending                            *)
ParConstructChildren(path) ==
    /\ octree_pc = "subdividing"
    /\ path \in DOMAIN subdividing
    /\ subdividing[path].chunks = {}
    /\ \E threads \in ThreadOrders :
       \E r \in {finish_subdivide_with_margin_par(tree[path], subdividing[path], octree_grid,
                                                  threads, debug_assertions)} :
       \E t \in {with_children(tree, path, r)} :
       \E tasks \in {par_tasks \cup (IF r.panic = ""
                                     THEN pending_visits(t, Range(children_paths(path)))
                                     ELSE {})} :
            /\ tree' = t
            /\ subdividing' = [p \in DOMAIN subdividing \ {path} |-> subdividing[p]]
            /\ par_tasks' = tasks
            /\ octree_panic' = r.panic
            /\ octree_pc' = octree_pc_after(r.panic, << >>, tasks,
                                            DOMAIN subdividing \ {path})
    /\ UNCHANGED <<mc_vars, stitch_vars, octree_args, children_map, bfs_queue>>

OctreePaths == {<< >>} \cup {<<o>> : o \in Octants} \cup {<<o, n>> : o \in Octants, n \in Octants}

OctreeNext ==
    \/ NewSubdivided
    \/ VisitMutBfs
    \/ \E path \in OctreePaths : ParVisit(path)
    \/ \E path \in OctreePaths, c \in 1..MaxParticles, thread \in Threads :
           ParClassifyChunk(path, c, thread)
    \/ \E path \in OctreePaths : ParConstructChildren(path)

SpecOctree == OctreeInit /\ [][OctreeNext]_vars

(* The conditions under which the steps of the traversal are enabled: the sequential *)
(* traversal has a node in its queue, a visit is pending, a chunk of a node is not    *)
(* classified yet, all chunks of a node are classified                                *)
VisitMutBfsEnabled == octree_pc = "subdividing" /\ ~enable_multi_threading /\ bfs_queue # << >>

ParVisitEnabled == octree_pc = "subdividing" /\ par_tasks # {}

ParClassifyChunkEnabled ==
    octree_pc = "subdividing" /\ \E path \in DOMAIN subdividing : subdividing[path].chunks # {}

ParConstructChildrenEnabled ==
    octree_pc = "subdividing" /\ \E path \in DOMAIN subdividing : subdividing[path].chunks = {}

(* Weak fairness of every step: the caller starts the traversal, the loop of        *)
(* visit_mut_bfs takes the next node of its queue as long as there is one, and the  *)
(* thread pool runs every task that was spawned. For the steps of the traversal the *)
(* enabling condition of WF is written out.                                         *)
SpecOctreeTermination ==
    /\ SpecOctree
    /\ WF_vars(NewSubdivided)
    /\ ([]<>(~VisitMutBfsEnabled) \/ []<><<VisitMutBfs>>_vars)
    /\ ([]<>(~ParVisitEnabled) \/ []<><<\E path \in OctreePaths : ParVisit(path)>>_vars)
    /\ ([]<>(~ParClassifyChunkEnabled)
           \/ []<><<\E path \in OctreePaths, c \in 1..MaxParticles, thread \in Threads :
                       ParClassifyChunk(path, c, thread)>>_vars)
    /\ ([]<>(~ParConstructChildrenEnabled)
           \/ []<><<\E path \in OctreePaths : ParConstructChildren(path)>>_vars)

(***************************************************************************)
(* OctreeNode::stitch_surface_patches on a node whose children carry the   *)
(* patches of triangulate_density_map_with_stitching_data                  *)
(***************************************************************************)
NodeGrid == <<6, 6, 6>>

ChildGrid == <<3, 3, 3>>

(* The lower corner of the child of an octant *)
ChildOffset(o) ==
    [a \in 1..3 |-> IF OctantAxisDirections_from_octant(o)[a] = 1 THEN ChildGrid[a] ELSE 0]

NodeWindow == {<<3, 3, 3>>, <<2, 3, 3>>, <<4, 2, 3>>}

NodeMaps == DensityMapsOf(NodeGrid, PointsOf(NodeGrid), NodeWindow, {}, MaxAbove, 0)

(* The stitching levels the patches of the children come with *)
ChildLevels ==
    {[o \in Octants |-> 0], [o \in Octants |-> IF o = 3 THEN 2 ELSE o % 2]}

(* The shapes of the node: 8 children with the patches of its octants, no children, *)
(* a child with children, a child without a patch; and children with a patch that   *)
(* does not fit its sibling: of another global grid, overlapping it along X or      *)
(* along Y, of another cross section                                                *)
NodeShapes ==
    {"patches", "leaf", "deep", "no_patch", "other_grid", "overlap", "overlap_y", "cross"}

ChildGlobalGrid(shape, o) == IF shape = "other_grid" /\ o = 1 THEN <<6, 6, 7>> ELSE NodeGrid

ChildPatchOffset(shape, o) ==
    IF shape = "overlap" /\ o = 1 THEN <<2, 0, 0>>
    ELSE IF shape = "overlap_y" /\ o \in {2, 3} THEN [ChildOffset(o) EXCEPT ![2] = 2]
    ELSE ChildOffset(o)

ChildPatchGrid(shape, o) == IF shape = "cross" /\ o = 1 THEN <<3, 4, 3>> ELSE ChildGrid

ChildPatch(dm, order, levels, shape, o) ==
    [triangulate_density_map_with_stitching_data(ChildGlobalGrid(shape, o),
         ChildPatchOffset(shape, o), ChildPatchGrid(shape, o),
         restrict_density_map(NodeGrid, dm, ChildPatchOffset(shape, o),
                              ChildPatchGrid(shape, o)), order)
     EXCEPT !.stitching_level = levels[o]]

ChildNode(dm, order, levels, shape, o) ==
    [children |-> IF shape = "deep" /\ o = 5 THEN 8 ELSE 0,
     min_corner |-> ChildOffset(o),
     max_corner |-> vadd(ChildOffset(o), ChildGrid),
     data |-> IF shape = "no_patch" /\ o = 6 THEN NodeData_None
              ELSE NodeData_SurfacePatch(ChildPatch(dm, order, levels, shape, o))]

NodeTree(dm, order, levels, shape) ==
    [p \in {<< >>} \cup {<<o>> : o \in {k \in Octants : shape # "leaf"}} |->
        IF p = << >>
        THEN [children |-> IF shape = "leaf" THEN 0 ELSE 8,
              min_corner |-> <<0, 0, 0>>, max_corner |-> NodeGrid, data |-> NodeData_None]
        ELSE ChildNode(dm, order, levels, shape, p[1])]

StitchPatchesInit ==
    /\ pc = "idle"
    /\ grid = NodeGrid
    /\ subdomain_offset = None
    /\ subdomain_grid = None
    /\ density_map \in NodeMaps
    /\ iter_order \in IterOrders
    /\ debug_assertions \in BOOLEAN
    /\ mesh = EmptyMesh
    /\ marching_cubes_data = new_map
    /\ triangle_cells = << >>
    /\ panic = ""
    /\ stitching_axis = 1
    /\ leaf_density_map = [d \in {-1, 1} |-> new_map]
    /\ patches = [d \in {-1, 1} |-> None]
    /\ stitched = None
    /\ NoMerge
    /\ octree_grid = [cells |-> NodeGrid, cell_size |-> 1]
    /\ particle_positions = << >>
    /\ subdivision_criterion = [kind |-> "MaxParticleCountAuto"]
    /\ margin = 0
    /\ enable_multi_threading = FALSE
    /\ octree_pc = "call"
    /\ \E levels \in ChildLevels, shape \in NodeShapes :
           /\ shape = "patches" \/ levels = [o \in Octants |-> 0]
           /\ tree = NodeTree(density_map, iter_order, levels, shape)
    /\ \A p \in DOMAIN tree : tree[p].data.kind = "SurfacePatch" => tree[p].data.patch.panic = ""
    /\ bfs_queue = << >>
    /\ par_tasks = {}
    /\ subdividing = [p \in {} |-> 0]
    /\ octree_panic = ""
    /\ children_map = new_map

(* stitch_surface_patches up to the first pass *)
TakeChildrenIntoMap ==
    /\ octree_pc = "call"
    /\ \E r \in {take_children_into_map(tree, << >>)} :
        /\ tree' = r.tree
        /\ children_map' = r.children_map
        /\ octree_panic' = r.panic
        /\ octree_pc' = IF r.panic # "" THEN "panicked"
                        ELSE IF r.returned THEN "returned" ELSE "stitch_1"
    /\ UNCHANGED <<mc_vars, stitch_vars, octree_args, bfs_queue, par_tasks, subdividing>>

(* stitch_surface_patches: the pass of stitch_children_orthogonal_to for one axis *)
StitchChildrenOrthogonalTo(axis) ==
    /\ octree_pc = IF axis = 1 THEN "stitch_1" ELSE IF axis = 2 THEN "stitch_2" ELSE "stitch_3"
    /\ \E r \in {stitch_children_orthogonal_to(children_map, axis, iter_order,
                                               debug_assertions)} :
        /\ children_map' = r.map
        /\ octree_panic' = r.panic
        /\ octree_pc' = IF r.panic # "" THEN "panicked"
                        ELSE IF axis = 1 THEN "stitch_2"
                        ELSE IF axis = 2 THEN "stitch_3" ELSE "store"
    /\ UNCHANGED <<mc_vars, stitch_vars, octree_args, tree, bfs_queue, par_tasks, subdividing>>

(* stitch_surface_patches after the three passes *)
StoreStitchedPatch ==
    /\ octree_pc = "store"
    /\ \E r \in {store_stitched_patch(tree, << >>, children_map)} :
        /\ tree' = r.tree
        /\ octree_panic' = r.panic
        /\ octree_pc' = IF r.panic # "" THEN "panicked" ELSE "returned"
    /\ children_map' = new_map
    /\ UNCHANGED <<mc_vars, stitch_vars, octree_args, bfs_queue, par_tasks, subdividing>>

StitchPatchesNext ==
    \/ TakeChildrenIntoMap
    \/ \E axis \in Axes : StitchChildrenOrthogonalTo(axis)
    \/ StoreStitchedPatch

SpecStitchPatches == StitchPatchesInit /\ [][StitchPatchesNext]_vars

(***************************************************************************)
(* What the claims speak about, stated on the grid and the density map     *)
(* alone                                                                   *)
(***************************************************************************)
present_above(g, dm, p) ==
    /\ flatten_point_index(g, p) \in DOMAIN dm
    /\ dm[flatten_point_index(g, p)] > iso_surface_threshold

present_not_above(g, dm, p) ==
    /\ flatten_point_index(g, p) \in DOMAIN dm
    /\ dm[flatten_point_index(g, p)] <= iso_surface_threshold

GridEdges(g) ==
    {e \in [origin : PointsOf(g), axis : Axes] : e.origin[e.axis] < g[e.axis]}

edge_end(e) == apply_step(e.origin, <<e.axis, 1>>)

(* Both end points present, one value <= threshold and the other > threshold *)
edge_crosses(g, dm, e) ==
    \/ present_above(g, dm, e.origin) /\ present_not_above(g, dm, edge_end(e))
    \/ present_not_above(g, dm, e.origin) /\ present_above(g, dm, edge_end(e))

CrossingEdges(g, dm) == {e \in GridEdges(g) : edge_crosses(g, dm, e)}

(* The grid edge at a local edge of a cell *)
cell_edge(c, le) == edge_of(local_edge_origin(c, le), local_edge_target(c, le))

CellsAround(g, e) == {c \in CellsOf(g) : \E le \in LocalEdges : cell_edge(c, le) = e}

LocalEdgeAt(c, e) == CHOOSE le \in LocalEdges : cell_edge(c, le) = e

CellsAtCrossingEdges(g, dm) ==
    {c \in CellsOf(g) : \E le \in LocalEdges : cell_edge(c, le) \in CrossingEdges(g, dm)}

(* A cell with at least one absent corner has no corner above the threshold *)
ConsistentDensityMap(g, dm) ==
    \A c \in CellsOf(g) :
        (\E lp \in LocalPoints :
            flatten_point_index(g, global_point_index_of(c, lp)) \notin DOMAIN dm)
        => ~\E lp \in LocalPoints : present_above(g, dm, global_point_index_of(c, lp))

CellOnOuterFace(g, c) == \E a \in Axes : c[a] = 0 \/ c[a] = g[a] - 1

PointOnOuterFace(g, p) == \E a \in Axes : p[a] = 0 \/ p[a] = g[a]

IsPrefix(s, t) == Len(s) <= Len(t) /\ \A i \in 1..Len(s) : s[i] = t[i]

AppendedPart(s, t) == SubSeq(t, Len(s) + 1, Len(t))

CellOf(g, f) == unwrap(try_unflatten_cell_index(g, f))

(* The call takes the branch without subdomain: interpolate_points_to_cell_data on grid *)
FullVariantCall == ~(is_some(subdomain_grid) /\ is_some(subdomain_offset))

(* The interpolation of the call has returned its MarchingCubesInput *)
InterpolationReturned ==
    /\ pc # "call"
    /\ panic \in {"", "Missing iso surface vertex", "Indeterminate corner"}

CallStep == pc = "call" /\ pc' # "call"

(* The density map of the unit test: corners 1, 2, 3 and 6 above the threshold *)
TestCaseB ==
    /\ grid = UnitGrid
    /\ FullVariantCall
    /\ DOMAIN density_map = FlatPointsOf(UnitGrid)
    /\ {p \in PointsOf(UnitGrid) : present_above(UnitGrid, density_map, p)}
           = {<<1, 0, 0>>, <<1, 1, 0>>, <<0, 1, 0>>, <<1, 1, 1>>}

(***************************************************************************)
(* C2: interpolate_points_to_cell_data appends exactly one vertex per grid *)
(* edge whose end points are both present with one value <= threshold and *)
(* the other > threshold, and in every cell of the returned input          *)
(* iso_surface_vertices[e] is set exactly for the local edges e that are   *)
(* such crossing edges; in the unit test case these are 6 vertices, on the *)
(* local edges {0, 3, 5, 6, 9, 11} of the single cell.                     *)
(***************************************************************************)
C2_Post(old_mesh, new_mesh, input) ==
    LET new == AppendedPart(old_mesh.vertices, new_mesh.vertices)
        crossing == CrossingEdges(grid, density_map)
    IN  /\ Len(new) = Cardinality(crossing)
        /\ {edge_of(new[i].p, new[i].q) : i \in 1..Len(new)} = crossing
        /\ \A f \in DOMAIN input : \A le \in LocalEdges :
               is_some(input[f].iso_surface_vertices[le])
                   <=> cell_edge(CellOf(grid, f), le) \in crossing
        /\ TestCaseB =>
               /\ Len(new) = 6
               /\ DOMAIN input = {0}
               /\ {le \in LocalEdges : is_some(input[0].iso_surface_vertices[le])}
                      = {0, 3, 5, 6, 9, 11}

C2_OneVertexPerCrossingEdge ==
    [][(CallStep /\ FullVariantCall) =>
           /\ panic' # "Overwriting already existing vertex"
           /\ InterpolationReturned' => C2_Post(mesh, mesh', marching_cubes_data')]_vars

C2_Witness ==
    /\ TestCaseB
    /\ pc = "returned"
    /\ Len(mesh.vertices) = Len(PriorMesh.vertices) + 6
    /\ DOMAIN marching_cubes_data = {0}

(***************************************************************************)
(* C3: after interpolate_points_to_cell_data, for every edge that crosses  *)
(* the threshold and every pair of cells adjacent to it, both cells are in *)
(* the input and record the same vertex index at their local edge index of *)
(* the shared edge.                                                        *)
(***************************************************************************)
C3_SharedEdgeSameVertex ==
    (FullVariantCall /\ InterpolationReturned) =>
        \A e \in CrossingEdges(grid, density_map) :
            \A c1, c2 \in CellsAround(grid, e) :
                LET f1 == flatten_cell_index(grid, c1)
                    f2 == flatten_cell_index(grid, c2)
                IN  /\ f1 \in DOMAIN marching_cubes_data
                    /\ f2 \in DOMAIN marching_cubes_data
                    /\ is_some(marching_cubes_data[f1].iso_surface_vertices[LocalEdgeAt(c1, e)])
                    /\ marching_cubes_data[f1].iso_surface_vertices[LocalEdgeAt(c1, e)]
                           = marching_cubes_data[f2].iso_surface_vertices[LocalEdgeAt(c2, e)]

(* The edge in the middle of the 2 x 2 x 1 grid crosses and its 4 cells share the vertex *)
C3_Witness ==
    /\ grid = FlatGrid
    /\ FullVariantCall
    /\ pc = "returned"
    /\ [origin |-> <<1, 1, 0>>, axis |-> 3] \in CrossingEdges(grid, density_map)
    /\ Cardinality(CellsAround(grid, [origin |-> <<1, 1, 0>>, axis |-> 3])) = 4
    /\ DOMAIN marching_cubes_data = 0..3
    /\ \A f \in 0..3 :
           marching_cubes_data[f].iso_surface_vertices[
               LocalEdgeAt(CellOf(grid, f), [origin |-> <<1, 1, 0>>, axis |-> 3])]
             = marching_cubes_data[0].iso_surface_vertices[10]

(***************************************************************************)
(* C4: the MarchingCubesInput returned by interpolate_points_to_cell_data  *)
(* contains exactly the cells adjacent to at least one edge that crosses   *)
(* the threshold between two present points; an empty density map yields   *)
(* an empty input, appends no vertices and no triangles.                   *)
(***************************************************************************)
C4_ExactlyTheCrossingCells ==
    [][(CallStep /\ FullVariantCall /\ InterpolationReturned') =>
           /\ DOMAIN marching_cubes_data'
                  = {flatten_cell_index(grid, c) : c \in CellsAtCrossingEdges(grid, density_map)}
           /\ density_map = new_map =>
                  /\ marching_cubes_data' = new_map
                  /\ mesh' = mesh
                  /\ pc' = "returned"]_vars

(* A returned input that holds some but not all cells of the grid *)
C4_Witness ==
    /\ FullVariantCall
    /\ pc = "returned"
    /\ grid = FlatGrid
    /\ Cardinality(DOMAIN marching_cubes_data) = 2
    /\ Len(mesh.triangles) > Len(PriorMesh.triangles)

(* The empty density map: nothing is appended *)
C4_WitnessEmpty ==
    /\ FullVariantCall
    /\ pc = "returned"
    /\ density_map = new_map
    /\ mesh = PriorMesh

(***************************************************************************)
(* C5: for every consistent density map (no cell of the grid has both an   *)
(* absent corner and a corner above the threshold) triangulate_density_map *)
(* never panics with "Missing iso surface vertex": in every cell of the    *)
(* input each local edge whose two corner flags differ has a vertex, and   *)
(* the call returns.                                                       *)
(***************************************************************************)
C5_NoMissingVertexIfConsistent ==
    (pc # "call" /\ FullVariantCall /\ ConsistentDensityMap(grid, density_map)) =>
        /\ pc = "returned"
        /\ panic # "Missing iso surface vertex"
        /\ \A f \in DOMAIN marching_cubes_data : \A le \in LocalEdges :
               LET cd == marching_cubes_data[f]
               IN  cd.corner_above_threshold[CELL_LOCAL_EDGES[le + 1][1]]
                       # cd.corner_above_threshold[CELL_LOCAL_EDGES[le + 1][2]]
                   => is_some(cd.iso_surface_vertices[le])

(* A consistent map with an absent point and triangles in several cells *)
C5_Witness ==
    /\ pc = "returned"
    /\ FullVariantCall
    /\ grid = FlatGrid
    /\ ConsistentDensityMap(grid, density_map)
    /\ DOMAIN density_map # FlatPointsOf(grid)
    /\ Cardinality(DOMAIN marching_cubes_data) >= 2
    /\ Len(triangle_cells) >= 2

(***************************************************************************)
(* C6: a mesh made by the skip-boundary variant followed by the            *)
(* triangulation with TriangulationSkipBoundaryCells has no triangle of a  *)
(* cell that lies on an outer face of the subdomain grid, also when such   *)
(* cells are part of the cell data; the boundary cells are not looked at,  *)
(* so a consistent density map gives the patch without a panic.            *)
(***************************************************************************)
C6_NoTriangleOfBoundaryCell ==
    (pc # "call" /\ ~FullVariantCall /\ panic # "needs more than 2 cells in each dimension") =>
        /\ \A i \in 1..Len(triangle_cells) :
               ~CellOnOuterFace(unwrap(subdomain_grid),
                                CellOf(unwrap(subdomain_grid), triangle_cells[i]))
        /\ ConsistentDensityMap(unwrap(subdomain_grid), density_map) => pc = "returned"

(* Boundary cells with sign changes are in the cell data, the interior cell got triangles *)
C6_Witness ==
    /\ pc = "returned"
    /\ ~FullVariantCall
    /\ Len(triangle_cells) > 0
    /\ \E f \in DOMAIN marching_cubes_data :
           /\ CellOnOuterFace(unwrap(subdomain_grid), CellOf(unwrap(subdomain_grid), f))
           /\ \E le \in LocalEdges : is_some(marching_cubes_data[f].iso_surface_vertices[le])

(***************************************************************************)
(* C7: triangulate_density_map_append only appends to the mesh: the        *)
(* vertices and triangles of before the call stay as a prefix, every       *)
(* appended triangle refers only to vertices appended by the call; when a  *)
(* subdomain is given the skip-boundary variant is used, so no appended    *)
(* vertex lies on an edge with an end point on the outer boundary of the   *)
(* subdomain and no triangle belongs to a boundary cell of it.             *)
(***************************************************************************)
C7_Post(old_mesh, new_mesh, new_triangle_cells) ==
    LET new_triangles == AppendedPart(old_mesh.triangles, new_mesh.triangles)
        new_vertices == AppendedPart(old_mesh.vertices, new_mesh.vertices)
    IN  /\ IsPrefix(old_mesh.vertices, new_mesh.vertices)
        /\ IsPrefix(old_mesh.triangles, new_mesh.triangles)
        /\ \A i \in 1..Len(new_triangles) : \A j \in 1..3 :
               /\ new_triangles[i][j] >= Len(old_mesh.vertices)
               /\ new_triangles[i][j] < Len(new_mesh.vertices)
        /\ ~FullVariantCall =>
               /\ \A i \in 1..Len(new_vertices) :
                      /\ ~PointOnOuterFace(unwrap(subdomain_grid),
                                           vsub(new_vertices[i].p, unwrap(subdomain_offset)))
                      /\ ~PointOnOuterFace(unwrap(subdomain_grid),
                                           vsub(new_vertices[i].q, unwrap(subdomain_offset)))
               /\ \A i \in 1..Len(new_triangle_cells) :
                      ~CellOnOuterFace(unwrap(subdomain_grid),
                                       CellOf(unwrap(subdomain_grid), new_triangle_cells[i]))

C7_AppendOnly ==
    [][TriangulateDensityMapAppend => C7_Post(mesh, mesh', triangle_cells')]_vars

(* A call with a subdomain appended vertices and triangles to a mesh that was not empty *)
C7_Witness ==
    /\ pc = "returned"
    /\ ~FullVariantCall
    /\ IsPrefix(PriorMesh.vertices, mesh.vertices)
    /\ Len(mesh.vertices) > Len(PriorMesh.vertices)
    /\ Len(mesh.triangles) > Len(PriorMesh.triangles)

(***************************************************************************)
(* C1: after the two passes of each of the three interpolation variants    *)
(* (full, skip-boundary, stitching) no corner of a cell of the returned    *)
(* input is Indeterminate and a corner is flagged Above exactly if its     *)
(* point is present in the density map given to the variant with a value   *)
(* above the threshold, else Below; the stitching variant recomputes the   *)
(* flags of the cells that were in the input before.                       *)
(***************************************************************************)
FlagsAreThoseOfTheDensityMap(cell_data_map, g, dm) ==
    \A f \in DOMAIN cell_data_map : \A lp \in LocalPoints :
        cell_data_map[f].corner_above_threshold[lp]
            = IF present_above(g, dm, global_point_index_of(CellOf(g, f), lp))
              THEN "Above" ELSE "Below"

PatchReturned(o) == is_some(o) /\ unwrap(o).panic \in {"", "Missing iso surface vertex"}

C1_CornerFlagsDetermined ==
    /\ InterpolationReturned =>
           FlagsAreThoseOfTheDensityMap(marching_cubes_data, grid, density_map)
    /\ \A d \in {-1, 1} :
           PatchReturned(patches[d]) =>
               FlagsAreThoseOfTheDensityMap(unwrap(patches[d]).cell_data, PatchGrid,
                                            leaf_density_map[d])
    /\ PatchReturned(stitched) =>
           FlagsAreThoseOfTheDensityMap(unwrap(stitched).cell_data,
               [PatchGrid EXCEPT ![stitching_axis] = 2],
               unwrap(stitched).interpolated_density_map)

(* The cell data that the stitching interpolation was given for a cell of its result *)
CellDataBeforeStitching(f) ==
    LET slab == SubdomainGrid_new(grid, [PatchGrid EXCEPT ![stitching_axis] = 2],
                    place(stitching_axis, PatchGrid[stitching_axis] - 1, 0, 0))
        neg == unwrap(patches[-1])
        back == map_flat_cell_index_to(slab, neg.subdomain, f)
    IN  IF is_some(back)
           /\ unwrap(back) \in DOMAIN neg.data[<<stitching_axis, 1>>].boundary_cell_data
        THEN Some(neg.data[<<stitching_axis, 1>>].boundary_cell_data[unwrap(back)])
        ELSE None

(* All three variants have returned; a corner that the negative patch had flagged Above *)
(* is Below after the stitching, as its point is not in the density map of the slab     *)
C1_Witness ==
    /\ InterpolationReturned
    /\ Cardinality(DOMAIN marching_cubes_data) > 0
    /\ PatchReturned(stitched)
    /\ \E f \in DOMAIN unwrap(stitched).cell_data : \E lp \in LocalPoints :
           /\ is_some(CellDataBeforeStitching(f))
           /\ unwrap(CellDataBeforeStitching(f)).corner_above_threshold[lp] = "Above"
           /\ unwrap(stitched).cell_data[f].corner_above_threshold[lp] = "Below"

(***************************************************************************)
(* C8: two leaves that meet along X, meshed with the skip-boundary variant *)
(* from density maps that agree (both are the part of one map of the       *)
(* union), are stitched by stitch_meshes into the mesh that the marching   *)
(* cubes of the union give for the cells not on the outer faces of the     *)
(* union, up to the order of vertices and triangles: every crossing edge   *)
(* off the outer boundary has exactly one vertex and every such cell is    *)
(* triangulated exactly once.                                              *)
(***************************************************************************)
LeavesSeeUnion ==
    \A d \in {-1, 1} :
        leaf_density_map[d] = restrict_density_map(grid, density_map,
                                  LeafOffset(stitching_axis, d), PatchGrid)

(* The triangles of a mesh by their cells and the vertices at their corners *)
TriangleGeometry(m, cells) ==
    {[cell |-> cells[i], corners |-> [j \in 1..3 |-> m.vertices[m.triangles[i][j] + 1]]] :
        i \in 1..Len(m.triangles)}

(* The triangles and vertices of the mesh of the whole grid off its outer faces *)
InteriorTrianglesOfUnion ==
    {t \in TriangleGeometry(mesh, [i \in 1..Len(triangle_cells) |-> CellOf(grid, triangle_cells[i])]) :
        ~CellOnOuterFace(grid, t.cell)}

InteriorVerticesOfUnion ==
    {v \in Range(mesh.vertices) : ~PointOnOuterFace(grid, v.p) /\ ~PointOnOuterFace(grid, v.q)}

C8_StitchedEqualsUnion ==
    (LeavesSeeUnion /\ pc = "returned" /\ is_some(stitched)) =>
        LET st == unwrap(stitched)
        IN  /\ st.panic = ""
            /\ TriangleGeometry(st.mesh, st.triangle_cells) = InteriorTrianglesOfUnion
            /\ Len(st.mesh.triangles) = Cardinality(InteriorTrianglesOfUnion)
            /\ Range(st.mesh.vertices) = InteriorVerticesOfUnion
            /\ Len(st.mesh.vertices) = Cardinality(InteriorVerticesOfUnion)

(* The surface crosses the seam: the stitching made vertices and triangles of its own *)
C8_Witness ==
    /\ LeavesSeeUnion
    /\ pc = "returned"
    /\ is_some(stitched)
    /\ unwrap(stitched).panic = ""
    /\ Len(unwrap(stitched).mesh.vertices)
           > Len(unwrap(patches[-1]).mesh.vertices) + Len(unwrap(patches[1]).mesh.vertices)
    /\ Len(unwrap(stitched).mesh.triangles)
           > Len(unwrap(patches[-1]).mesh.triangles) + Len(unwrap(patches[1]).mesh.triangles)
    /\ Len(unwrap(patches[-1]).mesh.triangles) > 0
    /\ Len(unwrap(patches[1]).mesh.triangles) > 0

(***************************************************************************)
(* C9: stitching a patch with the patch of an empty neighbour (empty mesh, *)
(* empty boundary data) gives the mesh of the patch: the same vertices and *)
(* the same triangles, the stitching adds none.                            *)
(***************************************************************************)
(* The leaf on side d has no density at all, the other leaf has *)
EmptyNeighbour(d) == leaf_density_map[d] = new_map /\ leaf_density_map[-d] # new_map

SameMesh(m, cells, n, other_cells) ==
    /\ Len(m.vertices) = Len(n.vertices)
    /\ Range(m.vertices) = Range(n.vertices)
    /\ Len(m.triangles) = Len(n.triangles)
    /\ TriangleGeometry(m, cells) = TriangleGeometry(n, other_cells)

StitchedIsThePatch(d) ==
    SameMesh(unwrap(stitched).mesh, unwrap(stitched).triangle_cells,
             unwrap(patches[-d]).mesh, unwrap(patches[-d]).triangle_cells)

(* The claim as it stands: for every patch that has an empty neighbour *)
C9_StitchWithEmptyNeighbourAddsNothing ==
    \A d \in {-1, 1} :
        (EmptyNeighbour(d) /\ is_some(stitched) /\ unwrap(stitched).panic = "")
            => StitchedIsThePatch(d)

(* No point of the boundary density map of the patch at the face towards side d is above *)
(* the threshold                                                                         *)
NothingAboveAtTheSeam(d) ==
    LET dm == unwrap(patches[-d]).data[<<stitching_axis, d>>].boundary_density_map
    IN  \A f \in DOMAIN dm : ~(dm[f] > iso_surface_threshold)

(* C9 as amended: the stitching with an empty neighbour gives the mesh of the patch if  *)
(* no point of the boundary density map of the patch at the stitched face (the points   *)
(* of the face and the layer next to it) is above the threshold; else it adds the        *)
(* vertices of the crossing edges at the seam after those of the patch.                 *)
C9_StitchWithEmptyNeighbourAmended ==
    \A d \in {-1, 1} :
        (EmptyNeighbour(d) /\ is_some(stitched) /\ unwrap(stitched).panic = "")
            => /\ NothingAboveAtTheSeam(d) => StitchedIsThePatch(d)
               /\ IsPrefix(unwrap(patches[-d]).mesh.vertices, unwrap(stitched).mesh.vertices)
               /\ IsPrefix(unwrap(patches[-d]).mesh.triangles, unwrap(stitched).mesh.triangles)

(* A patch with triangles away from the seam was stitched with an empty neighbour *)
C9_Witness ==
    /\ EmptyNeighbour(1)
    /\ is_some(stitched)
    /\ unwrap(stitched).panic = ""
    /\ NothingAboveAtTheSeam(1)
    /\ Len(unwrap(patches[-1]).mesh.triangles) > 0
    /\ StitchedIsThePatch(1)

(***************************************************************************)
(* C10                                                                     *)
(***************************************************************************)
(* The result of the sequential subdivision of the arguments of the call *)
SequentialSubdivision ==
    subdivide_recursively_margin(octree_grid, particle_positions, subdivision_criterion,
                                 margin, debug_assertions)

(* The counters the sequential classification loop computes for the particles of a node *)
SequentialCounters(sub) ==
    LET classified == classify_particles(
            [counters |-> zeros.counters, non_ghost_counters |-> zeros.non_ghost_counters,
             octant_flags |-> [i \in 1..Len(sub.particles) |-> {}]],
            1, Len(sub.particles), sub.particles, particle_positions,
            point_coordinates(octree_grid, unwrap(sub.split_point)), margin)
    IN  [counters |-> classified.counters,
         non_ghost_counters |-> classified.non_ghost_counters]

(* C10: Octree::new_subdivided with enable_multi_threading = true gives the tree of   *)
(* the sequential subdivision (the same node boxes, the same particle list in the same *)
(* order and the same ghost_particle_count in every node) under every assignment of    *)
(* chunks to threads and every interleaving, and fails exactly when the sequential     *)
(* subdivision fails; once all chunks of a node are classified, the thread-local       *)
(* counter arrays sum to the counters of the sequential loop.                          *)
C10_ParallelEqualsSequential ==
    enable_multi_threading =>
        /\ octree_pc = "returned" =>
               SequentialSubdivision.panic = "" /\ tree = SequentialSubdivision.tree
        /\ octree_pc = "panicked" => SequentialSubdivision.panic = octree_panic
        /\ \A path \in DOMAIN subdividing :
               subdividing[path].chunks = {} =>
                   \A threads \in ThreadOrders :
                       sum_thread_local_counters(zeros, subdividing[path].tl_counters, threads)
                           = SequentialCounters(subdividing[path])

(* A parallel subdivision returned a tree of three levels in which the root was *)
(* classified in more than one chunk                                            *)
C10_Witness ==
    /\ enable_multi_threading
    /\ octree_pc = "returned"
    /\ \E path \in DOMAIN tree : Len(path) = 2
    /\ Len(particle_positions) > ChunkSize_new(ParallelPolicy_default, Len(particle_positions))
    /\ split_leaf(max_particles_of_call, new_root(octree_grid, Len(particle_positions)))

(* All chunks of a node are classified and two threads hold counters *)
C10_WitnessTwoThreads ==
    \E path \in DOMAIN subdividing :
        /\ subdividing[path].chunks = {}
        /\ \A t \in Threads : is_some(subdividing[path].tl_counters[t])

(* A panic ends a parallel subdivision *)
C10_WitnessPanic == enable_multi_threading /\ octree_pc = "panicked"

(***************************************************************************)
(* The leaves of the tree that Octree::new_subdivided returns              *)
(***************************************************************************)
Leaves(t) == {p \in DOMAIN t : t[p].children = 0}

(* particles.len() - ghost_particle_count of a node with a particle set *)
non_ghost_particle_count(node) ==
    Len(node.data.particles) - node.data.ghost_particle_count

SubdividedWithMaxParticleCount ==
    octree_pc = "returned" /\ subdivision_criterion.kind = "MaxParticleCount"

ThinnerThanTwoCells(node) == \E a \in 1..3 : node.max_corner[a] - node.min_corner[a] < 2

(* C11 as stated: after Octree::new_subdivided with MaxParticleCount(N) every leaf *)
(* has a non-ghost particle count of at most N                                     *)
C11_LeafNonGhostAtMostN ==
    SubdividedWithMaxParticleCount =>
        \A p \in Leaves(tree) : non_ghost_particle_count(tree[p]) <= subdivision_criterion.count

(* C11 amended: after Octree::new_subdivided with MaxParticleCount(N) every leaf   *)
(* has a non-ghost particle count of at most N or is less than 2 cells wide in     *)
(* some dimension                                                                  *)
C11_LeafNonGhostAtMostNOrThin ==
    SubdividedWithMaxParticleCount =>
        \A p \in Leaves(tree) :
            \/ non_ghost_particle_count(tree[p]) <= subdivision_criterion.count
            \/ ThinnerThanTwoCells(tree[p])

(* A tree of two levels is returned, with a thin leaf above the limit and a leaf *)
(* within the limit that holds a particle                                        *)
C11_Witness ==
    /\ SubdividedWithMaxParticleCount
    /\ \E p \in Leaves(tree) :
           /\ Len(p) = 2
           /\ ThinnerThanTwoCells(tree[p])
           /\ non_ghost_particle_count(tree[p]) > subdivision_criterion.count
    /\ \E p \in Leaves(tree) :
           /\ ~ThinnerThanTwoCells(tree[p])
           /\ non_ghost_particle_count(tree[p]) = subdivision_criterion.count

(***************************************************************************)
(* Ghost particle counts                                                   *)
(***************************************************************************)
(* The position of a particle relative to the split point of the root *)
RelativeToRootSplit(i) ==
    vsub(particle_positions[i + 1],
         point_coordinates(octree_grid,
             unwrap(get_split_point(octree_grid, <<0, 0, 0>>, octree_grid.cells))))

(* The particles that the root assigns to an octant with the margin, and those *)
(* whose main octant it is                                                     *)
AssignedWithMargin(o) ==
    {i \in 0..(Len(particle_positions) - 1) :
        flags_contains(classify_with_margin(RelativeToRootSplit(i), margin),
                       OctantDirectionFlags_from_octant(o))}

WithMainOctant(o) ==
    {i \in 0..(Len(particle_positions) - 1) :
        Octant_from_directions(classify(RelativeToRootSplit(i))) = o}

GhostCountInRange(node) ==
    node.data.kind = "ParticleSet" =>
        /\ 0 <= node.data.ghost_particle_count
        /\ node.data.ghost_particle_count <= Len(node.data.particles)

(* C12 as stated: for a margin >= 0 the subtraction that gives the ghost count of *)
(* a child never underflows, every child of the root gets the number of particles *)
(* assigned to it with the margin minus the number of particles whose main octant *)
(* it is, and 0 <= ghost_particle_count <= particles.len() in every node          *)
C12_GhostCountNeverUnderflows ==
    margin >= 0 =>
        /\ octree_panic # "attempt to subtract with overflow"
        /\ \A p \in DOMAIN tree : GhostCountInRange(tree[p])
        /\ \A o \in Octants :
               (<<o>> \in DOMAIN tree /\ tree[<<o>>].data.kind = "ParticleSet") =>
                   /\ Len(tree[<<o>>].data.particles) = Cardinality(AssignedWithMargin(o))
                   /\ tree[<<o>>].data.ghost_particle_count =
                          Cardinality(AssignedWithMargin(o)) - Cardinality(WithMainOctant(o))

(* The same with a margin > 0 *)
C12_GhostCountWithPositiveMargin ==
    margin > 0 =>
        /\ octree_panic # "attempt to subtract with overflow"
        /\ \A p \in DOMAIN tree : GhostCountInRange(tree[p])
        /\ \A o \in Octants :
               (<<o>> \in DOMAIN tree /\ tree[<<o>>].data.kind = "ParticleSet") =>
                   /\ Len(tree[<<o>>].data.particles) = Cardinality(AssignedWithMargin(o))
                   /\ tree[<<o>>].data.ghost_particle_count =
                          Cardinality(AssignedWithMargin(o)) - Cardinality(WithMainOctant(o))

(* A root with a margin > 0 was split and a child holds a ghost particle *)
C12_WitnessPositiveMargin ==
    /\ margin > 0
    /\ octree_pc = "returned"
    /\ \E o \in Octants :
           /\ <<o>> \in DOMAIN tree
           /\ tree[<<o>>].data.kind = "ParticleSet"
           /\ tree[<<o>>].data.ghost_particle_count > 0

(***************************************************************************)
(* Stitching of the patches of the children of a node                      *)
(***************************************************************************)
HasEightPatchChildren(t) ==
    /\ t[<< >>].children = 8
    /\ \A o \in Octants : <<o>> \in DOMAIN t
                              /\ t[<<o>>].children = 0
                              /\ t[<<o>>].data.kind = "SurfacePatch"

InFirstPass == octree_pc = "stitch_1"

InPass == octree_pc \in {"stitch_1", "stitch_2", "stitch_3"}

(* The axis of the pass that is about to run *)
PassAxis == IF octree_pc = "stitch_1" THEN 1 ELSE IF octree_pc = "stitch_2" THEN 2 ELSE 3

(* Two patches are not a negative and a positive side of one global grid that meet *)
(* along the axis with the same cross section                                      *)
OtherGlobalGrid(negative, positive) ==
    negative.subdomain.global_grid # positive.subdomain.global_grid

DoNotMeet(negative, positive, axis) ==
    positive.subdomain.subdomain_offset
        # [negative.subdomain.subdomain_offset EXCEPT
              ![axis] = @ + negative.subdomain.subdomain_grid[axis]]

OtherCrossSection(negative, positive, axis) ==
    \E a \in Axes \ {axis} :
        negative.subdomain.subdomain_grid[a] # positive.subdomain.subdomain_grid[a]

Mismatched(negative, positive, axis) ==
    \/ OtherGlobalGrid(negative, positive)
    \/ DoNotMeet(negative, positive, axis)
    \/ OtherCrossSection(negative, positive, axis)

MismatchedPairs(m, axis) ==
    {d \in DOMAIN m : /\ d[axis] = -1
                      /\ [d EXCEPT ![axis] = 1] \in DOMAIN m
                      /\ Mismatched(m[d], m[[d EXCEPT ![axis] = 1]], axis)}

MismatchedPair(m, axis) == MismatchedPairs(m, axis) # {}

(* C13: stitch_surface_patches on a node whose 8 children are childless and carry  *)
(* patches puts the 8 patches in the children map, which holds 4 patches after the *)
(* X pass, 2 after the Y pass and 1 after the Z pass; no pass over patches that    *)
(* fit pairwise panics; the patch that is left becomes the payload of the node and *)
(* the node has no children left                                                   *)
C13_FourTwoOne ==
    [][/\ (octree_pc = "call" /\ HasEightPatchChildren(tree)) =>
              (InFirstPass' /\ Cardinality(DOMAIN children_map') = 8)
       /\ (InPass /\ ~MismatchedPair(children_map, PassAxis)) => octree_pc' # "panicked"
       /\ octree_pc' = "stitch_2" => Cardinality(DOMAIN children_map') = 4
       /\ octree_pc' = "stitch_3" => Cardinality(DOMAIN children_map') = 2
       /\ octree_pc' = "store" => Cardinality(DOMAIN children_map') = 1
       /\ octree_pc = "store" =>
              /\ octree_pc' = "returned"
              /\ DOMAIN tree' = {<< >>}
              /\ tree'[<< >>].children = 0
              /\ tree'[<< >>].data.kind = "SurfacePatch"
              /\ \A d \in DOMAIN children_map :
                     [tree'[<< >>].data.patch EXCEPT !.stitching_level = 0]
                         = [children_map[d] EXCEPT !.stitching_level = 0]]_vars

(* The patch of a node with 8 patches is stored, and its mesh has a triangle that *)
(* the stitching added                                                            *)
C13_Witness ==
    /\ octree_pc = "returned"
    /\ tree[<< >>].data.kind = "SurfacePatch"
    /\ Len(tree[<< >>].data.patch.mesh.triangles) > 0

PassCompleted == InPass /\ octree_pc' # "panicked"

NegativeOf(d, axis) == [d EXCEPT ![axis] = -1]

(* C18 as stated: after a pass of stitch_children_orthogonal_to every stitched patch *)
(* is in the children map under the key of the negative octant of its pair and the   *)
(* key of the positive octant is not in the map                                      *)
C18_StitchedUnderNegativeKey ==
    [][PassCompleted =>
           /\ DOMAIN children_map' = {d \in DOMAIN children_map : d[PassAxis] = -1}
           /\ \A d \in DOMAIN children_map' :
                  /\ children_map'[d].subdomain.subdomain_offset
                         = children_map[d].subdomain.subdomain_offset
                  /\ children_map'[d].subdomain.subdomain_grid[PassAxis]
                         = children_map[d].subdomain.subdomain_grid[PassAxis]
                               + children_map[[d EXCEPT ![PassAxis] = 1]]
                                     .subdomain.subdomain_grid[PassAxis]]_vars

(* C18 amended: after a pass of stitch_children_orthogonal_to every stitched patch *)
(* is in the children map under the key of the positive octant of its pair, it     *)
(* covers the subdomains of the two patches of the pair, and the key of the        *)
(* negative octant is not in the map                                               *)
C18_StitchedUnderPositiveKey ==
    [][PassCompleted =>
           /\ DOMAIN children_map' = {d \in DOMAIN children_map : d[PassAxis] = 1}
           /\ \A d \in DOMAIN children_map' :
                  /\ children_map'[d].subdomain.subdomain_offset
                         = children_map[NegativeOf(d, PassAxis)].subdomain.subdomain_offset
                  /\ children_map'[d].subdomain.subdomain_grid[PassAxis]
                         = children_map[NegativeOf(d, PassAxis)].subdomain.subdomain_grid[PassAxis]
                               + children_map[d].subdomain.subdomain_grid[PassAxis]]_vars

(* The Y pass has run: two patches, each of 6 x 6 x 3 cells, under keys that are *)
(* positive in X and in Y                                                        *)
C18_Witness ==
    /\ octree_pc = "stitch_3"
    /\ Cardinality(DOMAIN children_map) = 2
    /\ \A d \in DOMAIN children_map :
           d[1] = 1 /\ d[2] = 1 /\ children_map[d].subdomain.subdomain_grid = <<6, 6, 3>>

(* The greatest stitching level of the patches of the children map *)
MaxLevel(m) ==
    CHOOSE l \in {m[d].stitching_level : d \in DOMAIN m} :
        \A d \in DOMAIN m : m[d].stitching_level <= l

ExpectedPanic(negative, positive, axis) ==
    IF OtherGlobalGrid(negative, positive)
    THEN "The global grid of the two subdomains that should be stitched is not identical!"
    ELSE IF DoNotMeet(negative, positive, axis)
    THEN "The two subdomains that should be stitched do not meet directly!"
    ELSE "The cross sections of the two subdomains that should be stitched is not identical!"

(* C14: stitch_meshes panics in an assertion and returns no patch whenever the two *)
(* patches have different global grids, or the offset of the positive subdomain is *)
(* not that of the negative one advanced by its cells along the stitching axis, or *)
(* the cross sections differ: the pass that stitches such a pair panics with the   *)
(* message of that assertion and no patch of the pair is in the children map       *)
C14_MismatchedPatchesPanic ==
    [][(InPass /\ MismatchedPair(children_map, PassAxis)) =>
           /\ octree_pc' = "panicked"
           /\ \E d \in MismatchedPairs(children_map, PassAxis) :
                  /\ octree_panic' = ExpectedPanic(children_map[d],
                                         children_map[[d EXCEPT ![PassAxis] = 1]], PassAxis)
                  /\ d \notin DOMAIN children_map'
                  /\ [d EXCEPT ![PassAxis] = 1] \notin DOMAIN children_map']_vars

(* Each of the three assertions has failed, one of them in the Y pass *)
C14_Witness ==
    /\ octree_pc = "panicked"
    /\ octree_panic = "The two subdomains that should be stitched do not meet directly!"
    /\ Cardinality(DOMAIN children_map) = 2

C14_WitnessGlobalGrid ==
    /\ octree_pc = "panicked"
    /\ octree_panic
           = "The global grid of the two subdomains that should be stitched is not identical!"

C14_WitnessCrossSection ==
    /\ octree_pc = "panicked"
    /\ octree_panic
           = "The cross sections of the two subdomains that should be stitched is not identical!"

(***************************************************************************)
(* The interpolation parameter of the vertices of the first pass           *)
(***************************************************************************)
(* alpha = (threshold - vp) / (vq - vp) as a fraction with a positive denominator *)
alpha_numerator(v) == iso_surface_threshold - v.vp

alpha_denominator(v) == v.vq - v.vp

(* C15: every vertex that the first pass of interpolate_points_to_cell_data emits on *)
(* an edge (p, q) with vp <= threshold < vq has 0 < alpha <= 1                       *)
C15_AlphaPositiveAtMostOne ==
    [][(CallStep /\ FullVariantCall) =>
           \A v \in Range(AppendedPart(mesh.vertices, mesh'.vertices)) :
               /\ v.vp <= iso_surface_threshold /\ iso_surface_threshold < v.vq
               /\ 0 < alpha_numerator(v)
               /\ alpha_numerator(v) <= alpha_denominator(v)]_vars

(* C15, amended: every such vertex has 0 <= alpha <= 1, and alpha = 0 exactly if vp *)
(* is the threshold                                                                 *)
C15_AlphaBetweenZeroAndOne ==
    [][(CallStep /\ FullVariantCall) =>
           \A v \in Range(AppendedPart(mesh.vertices, mesh'.vertices)) :
               /\ v.vp <= iso_surface_threshold /\ iso_surface_threshold < v.vq
               /\ 0 < alpha_denominator(v)
               /\ 0 <= alpha_numerator(v)
               /\ alpha_numerator(v) <= alpha_denominator(v)
               /\ alpha_numerator(v) = 0 <=> v.vp = iso_surface_threshold]_vars

(* The call has emitted a vertex with alpha = 0 and one with alpha > 0 *)
C15_Witness ==
    /\ pc = "returned"
    /\ FullVariantCall
    /\ IsPrefix(PriorMesh.vertices, mesh.vertices)
    /\ \E v \in Range(AppendedPart(PriorMesh.vertices, mesh.vertices)) :
           alpha_numerator(v) = 0
    /\ \E v \in Range(AppendedPart(PriorMesh.vertices, mesh.vertices)) :
           alpha_numerator(v) > 0

(***************************************************************************)
(* The order in which the entries of the density map are visited           *)
(***************************************************************************)
Rotate(s, k) == [i \in 1..Len(s) |-> s[((i + k - 1) % Len(s)) + 1]]

(* The keys at the odd positions of a sequence, then those at the even positions *)
OddsThenEvens(s) ==
    [i \in 1..Len(s) |->
        IF i <= (Len(s) + 1) \div 2 THEN s[2 * i - 1] ELSE s[2 * (i - (Len(s) + 1) \div 2)]]

(* Visiting orders of the keys of a map: the ascending and the descending order, *)
(* each also started at its second and at its middle key, and the ascending one  *)
(* with every second key first                                                   *)
VisitingOrders(m) ==
    LET ascending == SortedSeq(DOMAIN m)
    IN  IF ascending = << >> THEN {<< >>}
        ELSE {Rotate(ascending, k) : k \in {0, 1, Len(ascending) \div 2}}
                 \cup {Rotate(Reverse(ascending), k) : k \in {0, 1, Len(ascending) \div 2}}
                 \cup {OddsThenEvens(ascending)}

(* Two results of the interpolation have the same cells with the same corner flags, *)
(* the same edges carry a vertex, and the vertex recorded at an edge is the same    *)
(* vertex, whichever its index; the vertex arrays hold the same vertices            *)
SameCellDataAndVertices(a_cell_data, a_vertices, b_cell_data, b_vertices) ==
    /\ DOMAIN a_cell_data = DOMAIN b_cell_data
    /\ \A f \in DOMAIN a_cell_data :
           /\ a_cell_data[f].corner_above_threshold = b_cell_data[f].corner_above_threshold
           /\ \A e \in LocalEdges :
                  /\ is_some(a_cell_data[f].iso_surface_vertices[e])
                         <=> is_some(b_cell_data[f].iso_surface_vertices[e])
                  /\ is_some(a_cell_data[f].iso_surface_vertices[e]) =>
                         a_vertices[unwrap(a_cell_data[f].iso_surface_vertices[e]) + 1]
                             = b_vertices[unwrap(b_cell_data[f].iso_surface_vertices[e]) + 1]
    /\ Len(a_vertices) = Len(b_vertices)
    /\ Range(a_vertices) = Range(b_vertices)

(* C16: the result of interpolate_points_to_cell_data does not depend on the order *)
(* in which the entries of the density map are visited: in every order the cells,  *)
(* their corner flags and the edges with a vertex are those of the call, the       *)
(* vertices are those of the call up to a permutation that the recorded indices    *)
(* follow, and the assertion "Overwriting already existing vertex" fails in none   *)
C16_VisitingOrderIrrelevant ==
    [][(CallStep /\ FullVariantCall) =>
           \A keys \in VisitingOrders(density_map) :
               \E b \in {interpolate_points_to_cell_data(grid, density_map, keys,
                             mesh.vertices, debug_assertions)} :
                   /\ b.panic # "Overwriting already existing vertex"
                   /\ panic' # "Overwriting already existing vertex"
                   /\ IF InterpolationReturned'
                      THEN /\ b.panic = ""
                           /\ SameCellDataAndVertices(marching_cubes_data', mesh'.vertices,
                                                      b.cell_data, b.vertices)
                      ELSE b.panic = panic']_vars

(* A call that visited the entries in descending order has returned vertices in an *)
(* order that is not the one of the ascending visit                                *)
C16_Witness ==
    /\ pc = "returned"
    /\ FullVariantCall
    /\ iter_order = "descending"
    /\ Len(mesh.vertices) >= 2
    /\ \E b \in {interpolate_points_to_cell_data(grid, density_map,
                     SortedSeq(DOMAIN density_map), << >>, FALSE)} :
           /\ Len(b.vertices) = Len(mesh.vertices)
           /\ b.vertices # mesh.vertices
           /\ Range(b.vertices) = Range(mesh.vertices)

(***************************************************************************)
(* Termination of the subdivision and the leaves of the final tree         *)
(***************************************************************************)
SubdivisionEnded == octree_pc \in {"returned", "panicked"}

(* The leaves with a particle set that the step starts to split: their particles are *)
(* taken or they get children                                                        *)
SplitInStep ==
    {p \in DOMAIN tree : /\ tree[p].children = 0
                         /\ tree[p].data.kind = "ParticleSet"
                         /\ tree'[p] # tree[p]}

AboveLimit(node) ==
    node.data.kind = "ParticleSet" /\ non_ghost_particle_count(node) > max_particles_of_call

(* C17: the recursive subdivision terminates for every grid, particle set, margin *)
(* and limit; in the tree it returns no leaf satisfies the split criterion, every *)
(* leaf has a non-ghost particle count <= limit or is less than 2 cells wide in   *)
(* some dimension; a node is split only if its non-ghost count is above the limit *)
(* and it is at least 2 cells wide in every dimension                             *)
C17_TerminatesWithUnsplittableLeaves ==
    /\ <>SubdivisionEnded
    /\ [](octree_pc = "returned" =>
              \A p \in Leaves(tree) :
                  /\ ~split_leaf(max_particles_of_call, tree[p])
                  /\ ~AboveLimit(tree[p]) \/ ThinnerThanTwoCells(tree[p]))
    /\ [][\A p \in SplitInStep :
              AboveLimit(tree[p]) /\ ~ThinnerThanTwoCells(tree[p])]_vars

(* The sequential subdivision has returned a tree of two levels for the automatic *)
(* limit, in which a leaf holds a particle                                        *)
C17_Witness ==
    /\ octree_pc = "returned"
    /\ ~enable_multi_threading
    /\ \E p \in Leaves(tree) : Len(p) = 2
    /\ \E p \in Leaves(tree) :
           tree[p].data.kind = "ParticleSet" /\ non_ghost_particle_count(tree[p]) >= 1

(***************************************************************************)
(* The density map that merge_boundary_data gives                          *)
(***************************************************************************)
(* The point of the global grid that a flat point index of a subdomain stands for *)
GlobalPointOf(subdomain, flat_point_index) ==
    vadd(unwrap(try_unflatten_point_index(subdomain.subdomain_grid, flat_point_index)),
         subdomain.subdomain_offset)

(* The keys of a boundary density map whose point is the point t of the target *)
ContributionsTo(subdomain, data, target, t) ==
    {k \in DOMAIN data.boundary_density_map :
        GlobalPointOf(subdomain, k) = GlobalPointOf(target, t)}

(* C20: the density map of merge_boundary_data is a map over the target subdomain;  *)
(* a point that only one side contributes keeps the value of this side, a point     *)
(* that both sides contribute holds the arithmetic mean of the two values, a point  *)
(* that lies outside of the target subdomain is absent and no other point is        *)
(* present                                                                          *)
C20_MergedDensityMap ==
    is_some(result_boundary_data) =>
        \E i \in {unwrap(merge_input)} :
        \E merged \in {unwrap(result_boundary_data).boundary_density_map} :
            /\ DOMAIN merged \subseteq FlatPointsOf(i.target_subdomain.subdomain_grid)
            /\ \A t \in FlatPointsOf(i.target_subdomain.subdomain_grid) :
                   \E n \in {ContributionsTo(i.negative_subdomain, i.negative_data,
                                             i.target_subdomain, t)} :
                   \E p \in {ContributionsTo(i.positive_subdomain, i.positive_data,
                                             i.target_subdomain, t)} :
                       /\ Cardinality(n) <= 1 /\ Cardinality(p) <= 1
                       /\ t \in DOMAIN merged <=> (n # {} \/ p # {})
                       /\ (n # {} /\ p = {}) =>
                              \A k \in n : merged[t] = i.negative_data.boundary_density_map[k]
                       /\ (n = {} /\ p # {}) =>
                              \A k \in p : merged[t] = i.positive_data.boundary_density_map[k]
                       /\ (n # {} /\ p # {}) =>
                              \A k \in n : \A l \in p :
                                  2 * merged[t] = i.negative_data.boundary_density_map[k]
                                                      + i.positive_data.boundary_density_map[l]

(* Both sides gave a point outside of the target, a point of their own and the   *)
(* shared point with different values: the result holds three points             *)
C20_Witness ==
    /\ is_some(result_boundary_data)
    /\ Cardinality(DOMAIN unwrap(merge_input).negative_data.boundary_density_map) = 3
    /\ Cardinality(DOMAIN unwrap(merge_input).positive_data.boundary_density_map) = 3
    /\ Cardinality(DOMAIN unwrap(result_boundary_data).boundary_density_map) = 3
    /\ unwrap(merge_input).negative_data.boundary_density_map[2] = 0
    /\ unwrap(merge_input).positive_data.boundary_density_map[0] = 4
    /\ unwrap(result_boundary_data).boundary_density_map[1] = 2

(***************************************************************************)
(* The cell data map that merge_boundary_data gives                        *)
(***************************************************************************)
(* The cell of the global grid that a flat cell index of a subdomain stands for *)
GlobalCellOf(subdomain, flat_cell_index) ==
    vadd(unwrap(try_unflatten_cell_index(subdomain.subdomain_grid, flat_cell_index)),
         subdomain.subdomain_offset)

FlatCellsOf(g) == 0..(g[1] * g[2] * g[3] - 1)

(* The keys of a boundary cell data map whose cell is the cell t of the target *)
CellContributionsTo(subdomain, data, target, t) ==
    {k \in DOMAIN data.boundary_cell_data :
        GlobalCellOf(subdomain, k) = GlobalCellOf(target, t)}

(* The cell data with every vertex index raised by the offset *)
ShiftedBy(cell_data, offset) ==
    [iso_surface_vertices |->
         [e \in LocalEdges |->
             IF is_some(cell_data.iso_surface_vertices[e])
             THEN Some(unwrap(cell_data.iso_surface_vertices[e]) + offset) ELSE None],
     corner_above_threshold |-> cell_data.corner_above_threshold]

MergeCollision(i) ==
    \E t \in FlatCellsOf(i.target_subdomain.subdomain_grid) :
        /\ CellContributionsTo(i.negative_subdomain, i.negative_data, i.target_subdomain, t) # {}
        /\ CellContributionsTo(i.positive_subdomain, i.positive_data, i.target_subdomain, t) # {}

(* C21: merge_boundary_data maps the cells of both sides into the target, with the *)
(* vertex indices of the positive side raised by positive_vertex_offset and those  *)
(* of the negative side unchanged; if a cell of the positive side maps to a target *)
(* cell that the negative side gave, the call panics and nothing is overwritten or *)
(* merged                                                                          *)
C21_MergedCellData ==
    is_some(result_boundary_data) =>
        \E i \in {unwrap(merge_input)} : \E r \in {unwrap(result_boundary_data)} :
            IF MergeCollision(i)
            THEN r.panic = "Merge conflict: there is duplicate cell data for this cell index"
            ELSE /\ r.panic = ""
                 /\ DOMAIN r.boundary_cell_data
                        \subseteq FlatCellsOf(i.target_subdomain.subdomain_grid)
                 /\ \A t \in FlatCellsOf(i.target_subdomain.subdomain_grid) :
                        \E n \in {CellContributionsTo(i.negative_subdomain, i.negative_data,
                                                      i.target_subdomain, t)} :
                        \E p \in {CellContributionsTo(i.positive_subdomain, i.positive_data,
                                                      i.target_subdomain, t)} :
                            /\ t \in DOMAIN r.boundary_cell_data <=> (n # {} \/ p # {})
                            /\ \A k \in n :
                                   r.boundary_cell_data[t] = i.negative_data.boundary_cell_data[k]
                            /\ \A k \in p :
                                   r.boundary_cell_data[t]
                                       = ShiftedBy(i.positive_data.boundary_cell_data[k],
                                                   i.positive_vertex_offset)

(* A call with an offset of 3 gave a cell of each side, the positive one shifted *)
C21_Witness ==
    /\ is_some(result_boundary_data)
    /\ unwrap(result_boundary_data).panic = ""
    /\ unwrap(merge_input).positive_vertex_offset = 3
    /\ DOMAIN unwrap(result_boundary_data).boundary_cell_data = {0, 1}
    /\ unwrap(result_boundary_data).boundary_cell_data[0].iso_surface_vertices[0] = Some(1)
    /\ unwrap(result_boundary_data).boundary_cell_data[1].iso_surface_vertices[4] = Some(4)

(* A call with a cell of both sides at the same target cell has panicked *)
C21_WitnessCollision ==
    /\ is_some(result_boundary_data)
    /\ MergeCollision(unwrap(merge_input))
    /\ unwrap(result_boundary_data).panic # ""


(***************************************************************************)
(* The vertices and the vertex indices of the boundary data after          *)
(* stitch_meshes                                                           *)
(***************************************************************************)
(* The vertex indices that a boundary cell data map holds *)
VertexIndicesOf(boundary_cell_data) ==
    {unwrap(boundary_cell_data[f].iso_surface_vertices[le]) :
        <<f, le>> \in {x \in (DOMAIN boundary_cell_data) \X LocalEdges :
                          is_some(boundary_cell_data[x[1]].iso_surface_vertices[x[2]])}}

(* Every vertex index that the face da of the patch `side` holds is found, raised by *)
(* the offset, at the same edge of the same cell of the global grid in the face da   *)
(* of the patch `out`, where it denotes the same vertex                              *)
IndicesCarriedOver(side, out, da, offset) ==
    \A f \in DOMAIN side.data[da].boundary_cell_data : \A le \in LocalEdges :
        \E v \in {side.data[da].boundary_cell_data[f].iso_surface_vertices[le]} :
        \E t \in {map_flat_cell_index_to(side.subdomain, out.subdomain, f)} :
            is_some(v) =>
                /\ is_some(t)
                /\ unwrap(t) \in DOMAIN out.data[da].boundary_cell_data
                /\ out.data[da].boundary_cell_data[unwrap(t)].iso_surface_vertices[le]
                       = Some(unwrap(v) + offset)
                /\ out.mesh.vertices[unwrap(v) + offset + 1] = side.mesh.vertices[unwrap(v) + 1]

(* C22: after stitch_meshes the vertices are those of the negative patch, then those  *)
(* of the positive patch, then those created in the stitching domain; every vertex    *)
(* index of the six boundary cell data maps of the result is below the number of      *)
(* vertices, and the indices of the two patches denote the vertices they denoted      *)
(* before: those of the negative patch unchanged, those of the positive patch raised  *)
(* by the number of vertices of the negative patch, on the four orthogonal faces too  *)
C22_VertexIndicesAfterStitch ==
    (is_some(stitched) /\ unwrap(stitched).panic = "") =>
        \E negative \in {unwrap(patches[-1])} : \E positive \in {unwrap(patches[1])} :
        \E out \in {unwrap(stitched)} :
            /\ IsPrefix(negative.mesh.vertices \o positive.mesh.vertices, out.mesh.vertices)
            /\ \A da \in DirectedAxes :
                   /\ \A i \in VertexIndicesOf(out.data[da].boundary_cell_data) :
                          i >= 0 /\ i < Len(out.mesh.vertices)
                   /\ da # <<stitching_axis, 1>> => IndicesCarriedOver(negative, out, da, 0)
                   /\ da # <<stitching_axis, -1>> =>
                          IndicesCarriedOver(positive, out, da, Len(negative.mesh.vertices))

(* Both patches have vertices, the stitching made vertices of its own, and an        *)
(* orthogonal face of the result holds an index of the positive patch and an index  *)
(* of a vertex made in the stitching domain                                          *)
C22_Witness ==
    /\ is_some(stitched)
    /\ unwrap(stitched).panic = ""
    /\ Len(unwrap(patches[-1]).mesh.vertices) > 0
    /\ Len(unwrap(patches[1]).mesh.vertices) > 0
    /\ Len(unwrap(stitched).mesh.vertices)
           > Len(unwrap(patches[-1]).mesh.vertices) + Len(unwrap(patches[1]).mesh.vertices)
    /\ \E da \in DirectedAxes :
           /\ da[1] # stitching_axis
           /\ VertexIndicesOf(unwrap(patches[1]).data[da].boundary_cell_data) # {}
           /\ \E i \in VertexIndicesOf(unwrap(stitched).data[da].boundary_cell_data) :
                  i >= Len(unwrap(patches[-1]).mesh.vertices)
                           + Len(unwrap(patches[1]).mesh.vertices)


(***************************************************************************)
(* The boundary cell data of the faces orthogonal to the stitching axis    *)
(***************************************************************************)
(* The domain in which the two patches were stitched *)
StitchingSubdomainOfPatches ==
    compute_stitching_domain(stitching_axis, unwrap(patches[-1]).subdomain.global_grid,
        unwrap(patches[-1]).subdomain, unwrap(patches[1]).subdomain).subdomain

(* The domain of the result of the stitching of the two patches *)
OutputSubdomainOfPatches ==
    compute_stitching_result_domain(stitching_axis,
        unwrap(patches[-1]).subdomain.global_grid,
        unwrap(patches[-1]).subdomain, unwrap(patches[1]).subdomain)

(* The cell data of the face da merged from the two patches, by the cells of the result *)
MergedSideCells(da) ==
    merge_boundary_data(OutputSubdomainOfPatches, unwrap(patches[-1]).subdomain,
        unwrap(patches[-1]).data[da], unwrap(patches[1]).subdomain,
        unwrap(patches[1]).data[da], Len(unwrap(patches[-1]).mesh.vertices)).boundary_cell_data

(* The cells of the stitching domain on its face da, by the cells of the result *)
SlabBoundaryCells(da) ==
    map_keys_to(collect_boundary_cell_data(StitchingSubdomainOfPatches,
                                           unwrap(stitched).cell_data)[da],
                StitchingSubdomainOfPatches, OutputSubdomainOfPatches, "cell")

OrthogonalFaces == {da \in DirectedAxes : da[1] # stitching_axis}

(* Both maps record a vertex at an edge of a cell, and not the same one *)
DifferentVertexRecorded(da) ==
    \E f \in DOMAIN MergedSideCells(da) \cap DOMAIN SlabBoundaryCells(da) :
        \E le \in LocalEdges :
            /\ is_some(MergedSideCells(da)[f].iso_surface_vertices[le])
            /\ is_some(SlabBoundaryCells(da)[f].iso_surface_vertices[le])
            /\ MergedSideCells(da)[f].iso_surface_vertices[le]
                   # SlabBoundaryCells(da)[f].iso_surface_vertices[le]

(* The cell f of the face has the corner flags of the stitching domain and at every *)
(* edge the vertex that either of the two maps records                              *)
OverlaidCell(result, existing, slab) ==
    /\ result.corner_above_threshold = slab.corner_above_threshold
    /\ \A le \in LocalEdges :
           /\ is_some(result.iso_surface_vertices[le])
                  <=> (is_some(existing.iso_surface_vertices[le])
                           \/ is_some(slab.iso_surface_vertices[le]))
           /\ result.iso_surface_vertices[le]
                  \in {existing.iso_surface_vertices[le], slab.iso_surface_vertices[le]}

C23_WitnessCornerFlags ==
    /\ is_some(stitched)
    /\ unwrap(stitched).panic = ""
    /\ \E da \in OrthogonalFaces :
           \E f \in DOMAIN MergedSideCells(da) \cap DOMAIN SlabBoundaryCells(da) :
               /\ MergedSideCells(da)[f].corner_above_threshold
                      # SlabBoundaryCells(da)[f].corner_above_threshold
               /\ unwrap(stitched).data[da].boundary_cell_data[f].corner_above_threshold
                      = SlabBoundaryCells(da)[f].corner_above_threshold


(***************************************************************************)
(* The edges that get a vertex in the stitching domain                     *)
(***************************************************************************)
(* Two points of a grid at the two ends of an edge *)
EndsOfAnEdge(p, q) ==
    \E a \in Axes : /\ q[a] - p[a] \in {-1, 1}
                    /\ \A b \in Axes \ {a} : q[b] = p[b]

(* The point is on an outer face of the grid g that is orthogonal to the axis: at the *)
(* first or last point layer along one of the two other axes                          *)
OnOrthogonalOuterFace(g, axis, p) ==
    \E b \in Axes \ {axis} : p[b] = 0 \/ p[b] = g[b]

(* The point is on one of the two stitching surfaces: the first or last point layer *)
(* along the axis                                                                    *)
OnStitchingSurfaceLayer(g, axis, p) == p[axis] = 0 \/ p[axis] = g[axis]

(* The crossing edges of the density map dm of the grid g: both ends present, the   *)
(* first at most at the threshold, the second above it                              *)
CrossingEdgesOf(g, dm) ==
    {e \in PointsOf(g) \X PointsOf(g) :
        /\ EndsOfAnEdge(e[1], e[2])
        /\ flatten_point_index(g, e[1]) \in DOMAIN dm
        /\ flatten_point_index(g, e[2]) \in DOMAIN dm
        /\ ~(dm[flatten_point_index(g, e[1])] > iso_surface_threshold)
        /\ dm[flatten_point_index(g, e[2])] > iso_surface_threshold}

(* The vertices that the stitching appended to those of the two patches, as edges of *)
(* the grid of the stitching domain                                                  *)
VerticesMadeInStitchingDomain ==
    AppendedPart(unwrap(patches[-1]).mesh.vertices \o unwrap(patches[1]).mesh.vertices,
                 unwrap(stitched).mesh.vertices)

EdgeOfVertex(v) ==
    <<vsub(v.p, StitchingSubdomainOfPatches.subdomain_offset),
      vsub(v.q, StitchingSubdomainOfPatches.subdomain_offset)>>

(* C24: the interpolation in the stitching domain makes a vertex for a crossing edge *)
(* exactly if neither end is on an outer face orthogonal to the stitching axis and   *)
(* the two ends are not both on the stitching surfaces; it makes one vertex for such *)
(* an edge and none for any other edge                                               *)
C24_StitchingInteriorEdges ==
    (is_some(stitched) /\ unwrap(stitched).panic = "") =>
        \E g \in {StitchingSubdomainOfPatches.subdomain_grid} :
        \E made \in {VerticesMadeInStitchingDomain} :
            /\ {EdgeOfVertex(made[i]) : i \in 1..Len(made)}
                   = {e \in CrossingEdgesOf(g, unwrap(stitched).interpolated_density_map) :
                         /\ ~OnOrthogonalOuterFace(g, stitching_axis, e[1])
                         /\ ~OnOrthogonalOuterFace(g, stitching_axis, e[2])
                         /\ ~(OnStitchingSurfaceLayer(g, stitching_axis, e[1])
                                 /\ OnStitchingSurfaceLayer(g, stitching_axis, e[2]))}
            /\ \A i, j \in 1..Len(made) :
                   EdgeOfVertex(made[i]) = EdgeOfVertex(made[j]) => i = j

(* The stitching made a vertex for an edge from a stitching surface into the layer   *)
(* between them, and the density map of the stitching domain has a crossing edge     *)
(* within a stitching surface, off the orthogonal outer faces                        *)
C24_Witness ==
    /\ is_some(stitched)
    /\ unwrap(stitched).panic = ""
    /\ \E g \in {StitchingSubdomainOfPatches.subdomain_grid} :
       \E crossing \in {CrossingEdgesOf(g, unwrap(stitched).interpolated_density_map)} :
           /\ \E e \in crossing :
                  /\ OnStitchingSurfaceLayer(g, stitching_axis, e[1])
                  /\ OnStitchingSurfaceLayer(g, stitching_axis, e[2])
                  /\ ~OnOrthogonalOuterFace(g, stitching_axis, e[1])
                  /\ ~OnOrthogonalOuterFace(g, stitching_axis, e[2])
           /\ \E e \in crossing :
                  /\ OnStitchingSurfaceLayer(g, stitching_axis, e[1])
                  /\ ~OnStitchingSurfaceLayer(g, stitching_axis, e[2])
                  /\ \E i \in 1..Len(VerticesMadeInStitchingDomain) :
                         EdgeOfVertex(VerticesMadeInStitchingDomain[i]) = e

(* The stitching made a vertex, and the density map of the stitching domain has a    *)
(* crossing edge that ends on an orthogonal outer face                               *)
C24_WitnessOuterFace ==
    /\ is_some(stitched)
    /\ unwrap(stitched).panic = ""
    /\ Len(VerticesMadeInStitchingDomain) > 0
    /\ \E g \in {StitchingSubdomainOfPatches.subdomain_grid} :
       \E e \in CrossingEdgesOf(g, unwrap(stitched).interpolated_density_map) :
           /\ ~OnOrthogonalOuterFace(g, stitching_axis, e[1])
           /\ OnOrthogonalOuterFace(g, stitching_axis, e[2])


(***************************************************************************)
(* The particles of the children of a subdivided node                      *)
(***************************************************************************)
ParentOf(path) == SubSeq(path, 1, Len(path) - 1)

OctantOf(path) == path[Len(path)]

(* The plane at which the node at a path is split along an axis: the middle *)
(* point of its corners, as a coordinate                                     *)
SplitCoordinateOf(path, a) ==
    ((tree[path].min_corner[a] + tree[path].max_corner[a]) \div 2) * octree_grid.cell_size

(* The coordinate of particle i along the axis a relative to the split point of the *)
(* node at the path                                                                  *)
RelativeCoordinate(path, i, a) == particle_positions[i + 1][a] - SplitCoordinateOf(path, a)

(* The side d (-1, 1) of the axis a of the node at the path is assigned to particle i *)
SideAssigned(path, i, a, d) ==
    IF d < 0 THEN RelativeCoordinate(path, i, a) < margin
    ELSE RelativeCoordinate(path, i, a) > 0 - margin

(* The direction of an octant along an axis: bit a - 1 of its number *)
DirectionOfOctant(o, a) ==
    IF (o \div (IF a = 1 THEN 1 ELSE IF a = 2 THEN 2 ELSE 4)) % 2 = 1 THEN 1 ELSE -1

(* The particles that a node gets by the rule: the root all of them, a child those *)
(* of its parent with the three directions of its octant among the assigned sides  *)
RECURSIVE ParticlesByRule(_)
ParticlesByRule(path) ==
    IF path = << >> THEN [k \in 1..Len(particle_positions) |-> k - 1]
    ELSE SelectSeq(ParticlesByRule(ParentOf(path)),
                   LAMBDA i : \A a \in Axes :
                       SideAssigned(ParentOf(path), i, a, DirectionOfOctant(OctantOf(path), a)))

AbsoluteValue(x) == IF x < 0 THEN 0 - x ELSE x

(* Particle i is in a child of the node on the side d of the axis a *)
InChildOnSide(path, i, a, d) ==
    \E o \in Octants :
        /\ DirectionOfOctant(o, a) = d
        /\ path \o <<o>> \in DOMAIN tree
        /\ i \in Range(ParticlesByRule(path \o <<o>>))

(* C25: a child of a subdivided node holds the particles of the node for which all *)
(* three directions of its octant are among the assigned sides, where along each    *)
(* axis the negative side is assigned iff c < margin and the positive side iff      *)
(* c > -margin for the coordinate c relative to the split point; a particle that a  *)
(* child holds is in children of both sides of an axis exactly if |c| < margin      *)
C25_AssignedSides ==
    \A path \in DOMAIN tree :
        /\ tree[path].data.kind = "ParticleSet" =>
               tree[path].data.particles = ParticlesByRule(path)
        /\ tree[path].children = 8 =>
               \A i \in Range(ParticlesByRule(path)) : \A a \in Axes :
                   (InChildOnSide(path, i, a, -1) \/ InChildOnSide(path, i, a, 1)) =>
                       ((InChildOnSide(path, i, a, -1) /\ InChildOnSide(path, i, a, 1))
                            <=> AbsoluteValue(RelativeCoordinate(path, i, a)) < margin)

(* A child of a child holds a particle that is in children of both sides of an axis *)
(* of the root, and the root has a particle of one side only                         *)
C25_Witness ==
    /\ octree_pc = "returned"
    /\ margin > 0
    /\ \E path \in DOMAIN tree :
           /\ Len(path) = 2
           /\ tree[path].data.kind = "ParticleSet"
           /\ \E i \in Range(tree[path].data.particles) : \E a \in Axes :
                  InChildOnSide(<< >>, i, a, -1) /\ InChildOnSide(<< >>, i, a, 1)
    /\ \E i \in Range(ParticlesByRule(<< >>)) : \E a \in Axes :
           InChildOnSide(<< >>, i, a, -1) /\ ~InChildOnSide(<< >>, i, a, 1)

(* With a margin of 0 a particle on a split plane of the root is in no child *)
C25_WitnessNoSide ==
    /\ octree_pc = "returned"
    /\ margin = 0
    /\ tree[<< >>].children = 8
    /\ \E i \in Range(ParticlesByRule(<< >>)) : \E a \in Axes :
           ~InChildOnSide(<< >>, i, a, -1) /\ ~InChildOnSide(<< >>, i, a, 1)


(***************************************************************************)
(* The boxes of the children of a subdivided node                          *)
(***************************************************************************)
(* The middle of the two corners of a node along an axis, rounded down *)
MiddleOf(node, a) == (node.min_corner[a] + node.max_corner[a]) \div 2

(* The cells of the grid in the box of a node, by their lower corners *)
CellsInBox(node) ==
    (node.min_corner[1]..(node.max_corner[1] - 1))
        \X (node.min_corner[2]..(node.max_corner[2] - 1))
        \X (node.min_corner[3]..(node.max_corner[3] - 1))

(* The points of the grid in the box of a node *)
PointsInBox(node) ==
    (node.min_corner[1]..node.max_corner[1])
        \X (node.min_corner[2]..node.max_corner[2])
        \X (node.min_corner[3]..node.max_corner[3])

(* The points of the box of a node that are on one of its faces *)
PointsOnFacesOf(node) ==
    {c \in PointsInBox(node) :
        \E a \in Axes : c[a] = node.min_corner[a] \/ c[a] = node.max_corner[a]}

AtLeastTwoCellsPerDimension(node) == \A a \in Axes : node.max_corner[a] - node.min_corner[a] >= 2

(* C26: the child of an octant has along each axis the box from the lower corner of *)
(* the parent to the split point for a negative direction and from the split point  *)
(* to the upper corner for a positive one, the split point being the middle of the  *)
(* corners rounded down; the boxes of the eight children cover the box of the       *)
(* parent, two children share points on faces of both only, and every child of a    *)
(* parent of at least 2 cells per dimension is at least 1 cell wide per dimension   *)
C26_ChildrenBoxes ==
    \A path \in DOMAIN tree :
        tree[path].children = 8 =>
            /\ \A o \in Octants : \A a \in Axes :
                   /\ tree[path \o <<o>>].min_corner[a] =
                          IF DirectionOfOctant(o, a) < 0 THEN tree[path].min_corner[a]
                          ELSE MiddleOf(tree[path], a)
                   /\ tree[path \o <<o>>].max_corner[a] =
                          IF DirectionOfOctant(o, a) < 0 THEN MiddleOf(tree[path], a)
                          ELSE tree[path].max_corner[a]
            /\ UNION {CellsInBox(tree[path \o <<o>>]) : o \in Octants} = CellsInBox(tree[path])
            /\ UNION {PointsInBox(tree[path \o <<o>>]) : o \in Octants} = PointsInBox(tree[path])
            /\ \A o, n \in Octants :
                   o # n =>
                       /\ CellsInBox(tree[path \o <<o>>]) \cap CellsInBox(tree[path \o <<n>>]) = {}
                       /\ PointsInBox(tree[path \o <<o>>]) \cap PointsInBox(tree[path \o <<n>>])
                              \subseteq PointsOnFacesOf(tree[path \o <<o>>])
                                            \cap PointsOnFacesOf(tree[path \o <<n>>])
            /\ AtLeastTwoCellsPerDimension(tree[path]) =>
                   \A o \in Octants : \A a \in Axes :
                       tree[path \o <<o>>].max_corner[a] - tree[path \o <<o>>].min_corner[a] >= 1

(* A root of 3 cells per dimension and a child of 2 cells per dimension were split: *)
(* children of 1 and of 2 cells, and children of 1 cell of the child                *)
C26_Witness ==
    /\ tree # [p \in {} |-> 0]
    /\ tree[<< >>].children = 8
    /\ tree[<< >>].max_corner = <<3, 3, 3>>
    /\ tree[<<0>>].max_corner = <<1, 1, 1>>
    /\ tree[<<7>>].min_corner = <<1, 1, 1>>
    /\ \E o \in Octants :
           /\ tree[<<o>>].children = 8
           /\ AtLeastTwoCellsPerDimension(tree[<<o>>])
           /\ \A n \in Octants : \A a \in Axes :
                  tree[<<o, n>>].max_corner[a] - tree[<<o, n>>].min_corner[a] = 1


(***************************************************************************)
(* The order of the octants and the conversions between octants and        *)
(* directions                                                              *)
(***************************************************************************)
(* The directions of an octant by the bits of its number *)
DirectionsOfOctant(o) == [a \in 1..3 |-> DirectionOfOctant(o, a)]

OctantConversionsAgree ==
    /\ Len(ALL_OCTANTS) = 8
    /\ Len(ALL_OCTANT_DIRECTIONS) = 8
    /\ \A k \in 1..8 :
           /\ ALL_OCTANTS[k] = k - 1
           /\ ALL_OCTANT_DIRECTIONS[k] = DirectionsOfOctant(k - 1)
           /\ OctantAxisDirections_from_octant(ALL_OCTANTS[k]) = ALL_OCTANT_DIRECTIONS[k]
           /\ Octant_from_directions(ALL_OCTANT_DIRECTIONS[k]) = ALL_OCTANTS[k]
           /\ Octant_from_directions(OctantAxisDirections_from_octant(ALL_OCTANTS[k]))
                  = ALL_OCTANTS[k]
           /\ OctantAxisDirections_from_octant(Octant_from_directions(ALL_OCTANT_DIRECTIONS[k]))
                  = ALL_OCTANT_DIRECTIONS[k]

(* The children map taken in the step holds under the directions of the k-th octant *)
(* the patch of the k-th child                                                       *)
ChildrenTakenByOctant ==
    \A k \in 1..8 :
        /\ ALL_OCTANT_DIRECTIONS[k] \in DOMAIN children_map'
        /\ children_map'[ALL_OCTANT_DIRECTIONS[k]] = tree[<<k - 1>>].data.patch

(* C27: Octant::all lists the octants in the order of their values, the directions *)
(* of OctantAxisDirections::all are those of the octants at the same positions,     *)
(* the conversions from an octant to its directions and back and from directions to *)
(* the octant and back give what they started from, and so stitch_surface_patches   *)
(* puts the k-th child under the directions of the k-th octant                      *)
C27_OctantOrderAndConversions ==
    [][/\ OctantConversionsAgree
       /\ (octree_pc = "call" /\ octree_pc' = "stitch_1") => ChildrenTakenByOctant]_vars

(* The eight patches of the children, no two the same, are in the children map *)
C27_Witness ==
    /\ octree_pc = "stitch_1"
    /\ Cardinality(DOMAIN children_map) = 8
    /\ \A d, e \in DOMAIN children_map : d # e => children_map[d] # children_map[e]
    /\ children_map[<<1, -1, -1>>].subdomain.subdomain_offset = ChildOffset(1)
    /\ children_map[<<-1, -1, 1>>].subdomain.subdomain_offset = ChildOffset(4)


(***************************************************************************)
(* The extent of the leaves and the precondition of the interpolation that *)
(* meshes a leaf                                                           *)
(***************************************************************************)
(* The cells per dimension of the subdomain of a node *)
ExtentOf(node) == vsub(node.max_corner, node.min_corner)

(* The precondition assertion of interpolate_points_to_cell_data_skip_boundary fires *)
(* for the subdomain of the node                                                     *)
SkipBoundaryAssertionFires(node) ==
    interpolate_points_to_cell_data_skip_boundary(ExtentOf(node), node.min_corner, new_map,
        << >>, << >>).panic = "needs more than 2 cells in each dimension"

(* C28: every leaf that Octree::new_subdivided makes on a grid of at least 3 cells *)
(* per dimension has more than 2 cells in each dimension, and the precondition     *)
(* assertion of the interpolation that skips the boundary does not fire for the    *)
(* subdomain of a leaf                                                             *)
C28_LeavesWiderThanTwoCells ==
    (octree_pc = "returned" /\ \A a \in Axes : octree_grid.cells[a] >= 3) =>
        \A p \in Leaves(tree) :
            /\ \A a \in Axes : ExtentOf(tree[p])[a] > 2
            /\ ~SkipBoundaryAssertionFires(tree[p])

(* A root of 3 cells per dimension that is not split is a leaf of more than 2 cells *)
C28_UnsplitRoot ==
    /\ octree_pc = "returned"
    /\ tree[<< >>].children = 0
    /\ \A a \in Axes : ExtentOf(tree[<< >>])[a] > 2
    /\ ~SkipBoundaryAssertionFires(tree[<< >>])

(* The subdivision has returned with a leaf of 1 cell in a dimension, for which *)
(* the assertion fires                                                          *)
C28_ThinLeaf ==
    /\ octree_pc = "returned"
    /\ \A a \in Axes : octree_grid.cells[a] >= 3
    /\ margin > 0
    /\ \E p \in Leaves(tree) :
           /\ \E a \in Axes : ExtentOf(tree[p])[a] = 1
           /\ SkipBoundaryAssertionFires(tree[p])


(***************************************************************************)
(* No particle is lost by a subdivision                                    *)
(***************************************************************************)
(* The main octant of particle i in the node at a path: along each axis the positive *)
(* side iff the coordinate relative to the split point is not negative               *)
MainOctantOf(path, i) ==
    (IF RelativeCoordinate(path, i, 1) >= 0 THEN 1 ELSE 0)
        + (IF RelativeCoordinate(path, i, 2) >= 0 THEN 2 ELSE 0)
        + (IF RelativeCoordinate(path, i, 3) >= 0 THEN 4 ELSE 0)

(* The node at the path was subdivided and its children hold their particle sets *)
JustSubdivided(path) ==
    /\ tree[path].children = 8
    /\ \A o \in Octants : tree[path \o <<o>>].data.kind = "ParticleSet"

NoIndexTwice(s) == \A j, k \in 1..Len(s) : s[j] = s[k] => j = k

(* The sequence s holds members of the sequence t in the order they have in t *)
InTheOrderOf(s, t) == s = SelectSeq(t, LAMBDA x : x \in Range(s))

(* Every particle of the node at the path is in a child, and in the child of its main *)
(* octant; the list of a child has no index twice and is in the order of the parent   *)
NoParticleLostAt(path) ==
    /\ \A i \in Range(ParticlesByRule(path)) :
           /\ \E o \in Octants : i \in Range(tree[path \o <<o>>].data.particles)
           /\ i \in Range(tree[path \o <<MainOctantOf(path, i)>>].data.particles)
    /\ \A o \in Octants :
           /\ NoIndexTwice(tree[path \o <<o>>].data.particles)
           /\ InTheOrderOf(tree[path \o <<o>>].data.particles, ParticlesByRule(path))

(* C29: with a margin >= 0 a subdivision loses no particle: every particle of the   *)
(* node is in at least one of the 8 children, in particular in the child of its main *)
(* octant, and the list of each child has no index twice and keeps the order of the  *)
(* parent                                                                            *)
C29_NoParticleLost ==
    margin >= 0 =>
        \A path \in DOMAIN tree : JustSubdivided(path) => NoParticleLostAt(path)

(* The same with a margin > 0 *)
C29_NoParticleLostWithPositiveMargin ==
    margin > 0 =>
        \A path \in DOMAIN tree : JustSubdivided(path) => NoParticleLostAt(path)

(* With a margin > 0 a node below the root was subdivided, and a particle is in two *)
(* of its children                                                                   *)
C29_WitnessPositiveMargin ==
    /\ margin > 0
    /\ \E path \in DOMAIN tree :
           /\ Len(path) = 1
           /\ JustSubdivided(path)
           /\ Len(ParticlesByRule(path)) >= 2
           /\ \E i \in Range(ParticlesByRule(path)) : \E o, n \in Octants :
                  /\ o # n
                  /\ i \in Range(tree[path \o <<o>>].data.particles)
                  /\ i \in Range(tree[path \o <<n>>].data.particles)

(* With a margin of 0 the root was subdivided and one of its particles is in no child *)
C29_LostParticle ==
    /\ margin = 0
    /\ << >> \in DOMAIN tree
    /\ JustSubdivided(<< >>)
    /\ \E i \in Range(ParticlesByRule(<< >>)) :
           \A o \in Octants : i \notin Range(tree[<<o>>].data.particles)


(***************************************************************************)
(* The non-ghost particles of a node                                       *)
(***************************************************************************)
AllParticlesInsideRootGrid ==
    \A k \in 1..Len(particle_positions) : \A a \in Axes :
        /\ particle_positions[k][a] >= 0
        /\ particle_positions[k][a] <= octree_grid.cells[a] * octree_grid.cell_size

(* No particle of a subdivided node is on one of the three planes through its split point *)
NoParticleOnSplitPlane ==
    \A path \in DOMAIN tree :
        tree[path].children = 8 =>
            \A i \in Range(ParticlesByRule(path)) : \A a \in Axes :
                RelativeCoordinate(path, i, a) # 0

(* Particle i is in the box of the node, the corners included *)
InsideOwnBox(node, i) ==
    \A a \in Axes :
        /\ node.min_corner[a] * octree_grid.cell_size <= particle_positions[i + 1][a]
        /\ particle_positions[i + 1][a] <= node.max_corner[a] * octree_grid.cell_size

(* The sum of the non-ghost counts of the children of octants 0..o of the node *)
RECURSIVE NonGhostSumUpTo(_, _)
NonGhostSumUpTo(path, o) ==
    IF o < 0 THEN 0
    ELSE non_ghost_particle_count(tree[path \o <<o>>]) + NonGhostSumUpTo(path, o - 1)

(* The particles of the parent of the node whose main octant at the split of the *)
(* parent is the octant of the node                                               *)
WithMainOctantOfNode(path) ==
    {i \in Range(ParticlesByRule(ParentOf(path))) :
        MainOctantOf(ParentOf(path), i) = OctantOf(path)}

(* C30 as stated: with a margin > 0, all particles in the grid of the root and none *)
(* on a split plane, the non-ghost count of a node at any depth is the number of    *)
(* its particles inside its own box, and the non-ghost counts of the 8 children of  *)
(* a node sum to the non-ghost count of the node                                    *)
C30_NonGhostAreInsideOwnBox ==
    (margin > 0 /\ AllParticlesInsideRootGrid /\ NoParticleOnSplitPlane) =>
        \A path \in DOMAIN tree :
            /\ tree[path].data.kind = "ParticleSet" =>
                   non_ghost_particle_count(tree[path])
                       = Cardinality({i \in Range(tree[path].data.particles) :
                                         InsideOwnBox(tree[path], i)})
            /\ JustSubdivided(path) =>
                   NonGhostSumUpTo(path, 7)
                       = Cardinality({i \in Range(ParticlesByRule(path)) :
                                         InsideOwnBox(tree[path], i)})

(* C30 amended: under the same conditions the non-ghost count of a node below the   *)
(* root is the number of particles of its parent, ghosts of the parent included,    *)
(* whose main octant at the split of the parent is the octant of the node; for the  *)
(* root and its children this is the number of particles inside the own box; the    *)
(* non-ghost counts of the 8 children of a node sum to the number of particles of   *)
(* the node                                                                         *)
C30_NonGhostHaveMainOctant ==
    (margin > 0 /\ AllParticlesInsideRootGrid /\ NoParticleOnSplitPlane) =>
        \A path \in DOMAIN tree :
            /\ tree[path].data.kind = "ParticleSet" =>
                   /\ path = << >> => tree[path].data.ghost_particle_count = 0
                   /\ path # << >> =>
                          non_ghost_particle_count(tree[path])
                              = Cardinality(WithMainOctantOfNode(path))
                   /\ Len(path) <= 1 =>
                          non_ghost_particle_count(tree[path])
                              = Cardinality({i \in Range(tree[path].data.particles) :
                                                InsideOwnBox(tree[path], i)})
            /\ JustSubdivided(path) =>
                   NonGhostSumUpTo(path, 7) = Len(ParticlesByRule(path))

(* A child of the root with a ghost particle was subdivided, and the ghost is a     *)
(* non-ghost particle of one of its children, outside of the box of that child      *)
C30_Witness ==
    /\ margin > 0
    /\ AllParticlesInsideRootGrid
    /\ NoParticleOnSplitPlane
    /\ \E path \in DOMAIN tree :
           /\ Len(path) = 1
           /\ JustSubdivided(path)
           /\ \E i \in Range(ParticlesByRule(path)) :
                  /\ ~InsideOwnBox(tree[path], i)
                  /\ \E o \in Octants :
                         /\ MainOctantOf(path, i) = o
                         /\ i \in Range(tree[path \o <<o>>].data.particles)
                         /\ ~InsideOwnBox(tree[path \o <<o>>], i)
                         /\ non_ghost_particle_count(tree[path \o <<o>>])
                                > Cardinality({j \in Range(tree[path \o <<o>>].data.particles) :
                                                  InsideOwnBox(tree[path \o <<o>>], j)})

=============================================================================
